---------------------------- MODULE Spec2Model ----------------------------
(***************************************************************************)
(* A model of the query-form validator of Scribe-Data                      *)
(* (src/src/scribe_data/check/check_query_forms.py), of get_total_lexemes  *)
(* and validate_language_and_data_type of its command line                 *)
(* (src/src/scribe_data/cli) and of the batch translation                  *)
(* (src/src/scribe_data/extract_transform/translation).                    *)
(*                                                                         *)
(* Representation of Python values                                         *)
(*   str        a sequence of atoms; an atom is a TLA+ string that is      *)
(*              either one character ("a", "1", "?") or one fixed literal  *)
(*              phrase of the program that is never taken apart            *)
(*              ("Invalid query formatting found").                        *)
(*   list       a sequence.                                                *)
(*   set        a set.                                                     *)
(*   Optional   a record [isNone, v]: None is [isNone |-> TRUE, v |-> <<>>]*)
(*   query text a sequence of whitespace-separated tokens, each a str.     *)
(***************************************************************************)
EXTENDS Integers, Sequences, FiniteSets, TLC

VARIABLES
    lexeme_form_metadata,  \* the controlled vocabulary, loaded once
    pc,                    \* position of the call under study
    qids,                  \* argument of return_correct_form_label
    correct_label,         \* value returned by return_correct_form_label
    query_text,            \* the text of the query file under check
    docstring_result,      \* value returned (or raised) by check_docstring
    forms_result,          \* value returned by validate_forms
    forms_locals,          \* validate_forms' select_vars and where_vars as the
                           \* checks read them (before lexeme is filtered out)
    form_text,             \* the text of one OPTIONAL block
    form_checks,           \* what the five per-block functions return for it
    query_files,           \* the *.sparql files of the data directory, in the
                           \* order glob yields them
    scanned,               \* how many of them check_query_forms has been through
    error_output,          \* the aggregate report of check_query_forms
    index,                 \* the number of the next report entry
    exit_status,           \* the status the process ends with, None while it runs
    language,              \* argument of get_total_lexemes and of
                           \* validate_language_and_data_type
    data_type,             \* argument of the same two functions
    doPrint,               \* argument of get_total_lexemes
    responses,             \* what the query service answers to the queries of
                           \* a call, in order
    try_count,             \* get_total_lexemes' count of the queries issued
    results,               \* get_total_lexemes' converted result, None before
    printed,               \* the messages printed, in order
    returned,              \* what the call under study returned or raised
    word_list,             \* argument of translate_to_other_languages
    batch_size,            \* argument of translate_to_other_languages
    translations,          \* the dictionary of translations in memory
    translated_words_json, \* the content of translated_words.json on disk
    batch_index,           \* the loop variable i of the loop over the batches
    assigned,              \* how many translations of the current batch are
                           \* assigned
    writer,                \* the file object of the with block of the loop
    loaded                 \* the words of translations when the call began

\* The variables of the calls of scribe_data.cli.
cliVars == <<language, data_type, doPrint, responses, try_count, results, printed, returned>>

\* The variables of translate_to_other_languages.
translationVars == <<word_list, batch_size, translations, translated_words_json,
                     batch_index, assigned, writer, loaded>>

\* The variables of the query-form validator but pc.
checkVars == <<lexeme_form_metadata, qids, correct_label, query_text,
               docstring_result, forms_result, forms_locals, form_text, form_checks,
               query_files, scanned, error_output, index, exit_status>>

vars == <<lexeme_form_metadata, pc, qids, correct_label, query_text,
          docstring_result, forms_result, forms_locals, form_text, form_checks,
          query_files, scanned, error_output, index, exit_status,
          cliVars, translationVars>>

-----------------------------------------------------------------------------
(* Bounds of the model *)

\* Longest list of feature codes handed to return_correct_form_label.
MaxQids == 3

\* Most lines of a query text handed to check_docstring.
MaxLines == 4

\* Most variables of a SELECT clause after ?lexeme and ?lexemeID.
MaxSelect == 3

\* Most form blocks (representation statements) of a WHERE clause.
MaxForms == 2

-----------------------------------------------------------------------------
(* Python values *)

None == [isNone |-> TRUE, v |-> <<>>]

Some(x) == [isNone |-> FALSE, v |-> x]

Range(s) == {s[i] : i \in 1..Len(s)}

\* Characters in code-point order: str comparison is by code point.
Alphabet ==
    <<"0", "1", "2", "3", "4", "5", "6", "7", "8", "9",
      "A", "B", "C", "D", "E", "F", "G", "H", "I", "J", "K", "L", "M",
      "N", "O", "P", "Q", "R", "S", "T", "U", "V", "W", "X", "Y", "Z", "_",
      "a", "b", "c", "d", "e", "f", "g", "h", "i", "j", "k", "l", "m",
      "n", "o", "p", "q", "r", "s", "t", "u", "v", "w", "x", "y", "z">>

Ord(c) == CHOOSE i \in 1..Len(Alphabet) : Alphabet[i] = c

\* a < b for two str values (lexicographic, a proper prefix is smaller).
RECURSIVE StrLess(_, _)
StrLess(a, b) ==
    IF b = <<>> THEN FALSE
    ELSE IF a = <<>> THEN TRUE
    ELSE IF Head(a) = Head(b) THEN StrLess(Tail(a), Tail(b))
    ELSE Ord(Head(a)) < Ord(Head(b))

\* sorted(S) for a set of str values.
RECURSIVE Sorted(_)
Sorted(S) ==
    IF S = {} THEN <<>>
    ELSE LET m == CHOOSE x \in S : \A y \in S \ {x} : StrLess(x, y)
         IN  <<m>> \o Sorted(S \ {m})

\* sep.join(parts)
RECURSIVE Join(_, _)
Join(parts, sep) ==
    IF parts = <<>> THEN <<>>
    ELSE IF Len(parts) = 1 THEN parts[1]
    ELSE parts[1] \o sep \o Join(Tail(parts), sep)

\* The concatenation of a sequence of sequences.
RECURSIVE Flatten(_)
Flatten(ss) == IF ss = <<>> THEN <<>> ELSE Head(ss) \o Flatten(Tail(ss))

UpperCase == {Alphabet[i] : i \in 11..36}

\* str.lower() of one character.
Lower(c) ==
    IF c \in UpperCase THEN Alphabet[Ord(c) + 27]
    ELSE c

\* s[:1].lower() + s[1:]
LowerFirst(s) == IF s = <<>> THEN <<>> ELSE <<Lower(Head(s))>> \o Tail(s)

\* The value of a result variable before the call.
NotCalled == [raised |-> FALSE, ok |-> FALSE, msg |-> <<"not called">>]

\* The locals of validate_forms before the call and when no SELECT matched.
NoLocals == [matched |-> FALSE, select_vars |-> <<>>, where_vars |-> <<>>]

\* The per-block results before the functions are called.
NoChecks == [raised |-> "not called"]

\* check_query_forms has not started: no file, no report, no exit status.
NoRun ==
    /\ query_files = <<>>
    /\ scanned = 0
    /\ error_output = <<>>
    /\ index = 0
    /\ exit_status = None

\* No call of scribe_data.cli is under study.
NoCli ==
    /\ language = None
    /\ data_type = None
    /\ doPrint = TRUE
    /\ responses = <<>>
    /\ try_count = 0
    /\ results = None
    /\ printed = <<>>
    /\ returned = NoChecks

\* translate_to_other_languages is not called.
NoTranslation ==
    /\ word_list = <<>>
    /\ batch_size = 1
    /\ translations = <<>>
    /\ translated_words_json = <<>>
    /\ batch_index = 0
    /\ assigned = 0
    /\ writer = None
    /\ loaded = {}

\* All sequences over S of length at most n.
SeqsUpTo(S, n) == UNION {[1..k -> S] : k \in 0..n}


-----------------------------------------------------------------------------
(* The controlled vocabulary (scribe_data.utils.lexeme_form_metadata) *)

\* Feature codes: the QIDs that occur in the modelled vocabularies ...
Q1 == <<"Q", "1">>

Q2 == <<"Q", "2">>

Q9 == <<"Q", "9">>

Q10 == <<"Q", "1", "0">>

\* ... and two that occur in none of them.
Q3 == <<"Q", "3">>

Q30 == <<"Q", "3", "0">>

AllQids == {Q1, Q2, Q9, Q10, Q3, Q30}

Entry(q, l) == [qid |-> q, label |-> l]

\* category -> feature -> {qid, label}; both mappings keep their insertion
\* order, and only the values are read by the validator.
VocabularyCaseNumber ==
    << <<Entry(Q1, <<"N", "o", "m">>), Entry(Q2, <<"G", "e", "n">>)>>,
       <<Entry(Q10, <<"S", "g">>), Entry(Q9, <<"P", "l">>)>> >>

VocabularyNumberCase ==
    << <<Entry(Q9, <<"P", "l">>), Entry(Q10, <<"s", "g">>)>>,
       <<Entry(Q2, <<"G">>)>>,
       <<Entry(Q1, <<"N", "o", "m">>)>> >>

VocabularyEmpty == <<>>

Vocabularies == {VocabularyCaseNumber, VocabularyNumberCase, VocabularyEmpty}

\* Every entry of the vocabulary, category by category.
MetadataEntries(metadata) == Flatten(metadata)

\* Mutant: the codes sorted, not in category-then-feature order.
lexeme_form_qid_order_sorted(metadata) ==
    Sorted({MetadataEntries(metadata)[i].qid :
                i \in 1..Len(MetadataEntries(metadata))})

\* for key, value in lexeme_form_metadata.items():
\*     lexeme_form_qid_order.extend(sub_value["qid"] for ... in value.items())
lexeme_form_qid_order(metadata) ==
    [i \in 1..Len(MetadataEntries(metadata)) |-> MetadataEntries(metadata)[i].qid]

-----------------------------------------------------------------------------
(* return_correct_form_label *)

InvalidQueryFormatting == <<"Invalid query formatting found">>

NotIncludedSuffix == <<" not included in lexeme_form.metadata.json">>

\* Mutant: "qids is None" in place of "not qids".
Falsy_only_none(optList) == optList.isNone

\* not qids
Falsy(optList) == optList.isNone \/ optList.v = <<>>

\* Mutant: the known codes are listed with the missing ones.
not_included_qids_all(qidList, metadata) == Sorted(Range(qidList))

\* sorted(set(qids) - set(lexeme_form_qid_order))
not_included_qids(qidList, metadata) ==
    Sorted(Range(qidList) \ Range(lexeme_form_qid_order(metadata)))

\* Mutant: the codes keep the order of the argument.
qids_ordered_as_given(qidList, metadata) ==
    SelectSeq(qidList, LAMBDA q : q \in Range(lexeme_form_qid_order(metadata)))

\* [q for q in lexeme_form_qid_order if q in qids]
qids_ordered(qidList, metadata) ==
    SelectSeq(lexeme_form_qid_order(metadata), LAMBDA q : q \in Range(qidList))

\* for category_vals in lexeme_form_metadata.values():
\*     for qid_label in category_vals.values():
\*         if q == qid_label["qid"]: correct_label += qid_label["label"]
LabelOf(q, metadata) ==
    LET entries == MetadataEntries(metadata)
    IN  Flatten([i \in 1..Len(entries) |->
                    IF q = entries[i].qid THEN entries[i].label ELSE <<>>])

NotIncludedMessage(missing) ==
    (IF Len(missing) > 1 THEN <<"QIDs">> ELSE <<"QID">>)
        \o <<" ">> \o Join(missing, <<",", " ">>) \o NotIncludedSuffix

return_correct_form_label(optQids, metadata) ==
    IF Falsy(optQids) THEN InvalidQueryFormatting
    ELSE IF ~(Range(optQids.v) \subseteq Range(lexeme_form_qid_order(metadata)))
    THEN NotIncludedMessage(not_included_qids(optQids.v, metadata))
    ELSE LET ordered == qids_ordered(optQids.v, metadata)
         IN  LowerFirst(Flatten([i \in 1..Len(ordered) |->
                                    LabelOf(ordered[i], metadata)]))

-----------------------------------------------------------------------------
(* Specification of one call of return_correct_form_label *)

QidArguments == {None} \cup {Some(l) : l \in SeqsUpTo(AllQids, MaxQids)}

InitLabel ==
    /\ NoCli
    /\ NoTranslation
    /\ lexeme_form_metadata \in Vocabularies
    /\ qids \in QidArguments
    /\ pc = "call"
    /\ correct_label = <<>>
    /\ query_text = <<>>
    /\ docstring_result = NotCalled
    /\ forms_result = <<"not called">>
    /\ forms_locals = NoLocals
    /\ form_text = <<>>
    /\ form_checks = NoChecks
    /\ NoRun

CallReturnCorrectFormLabel ==
    /\ UNCHANGED <<cliVars, translationVars>>
    /\ pc = "call"
    /\ correct_label' = return_correct_form_label(qids, lexeme_form_metadata)
    /\ pc' = "returned"
    /\ UNCHANGED <<lexeme_form_metadata, qids, query_text, docstring_result,
                   forms_result, forms_locals, form_text, form_checks,
                   query_files, scanned, error_output, index, exit_status>>

NextLabel == CallReturnCorrectFormLabel

SpecLabel == InitLabel /\ [][NextLabel]_vars


-----------------------------------------------------------------------------
(* Claims about return_correct_form_label *)

KnownQids(metadata) ==
    {MetadataEntries(metadata)[i].qid : i \in 1..Len(MetadataEntries(metadata))}

\* Every reordering of the list s.
PermutationsOf(s) ==
    {[i \in 1..Len(s) |-> s[p[i]]] :
        p \in {f \in [1..Len(s) -> 1..Len(s)] :
                  \A i, j \in 1..Len(s) : f[i] = f[j] => i = j}}

\* C1: for a list of codes that are all in the vocabulary, every permutation
\* of the list yields the label that the list itself yields.
C1_OrderIndependent ==
    (/\ pc = "returned"
     /\ ~qids.isNone
     /\ Range(qids.v) \subseteq KnownQids(lexeme_form_metadata))
    => \A p \in PermutationsOf(qids.v) :
           return_correct_form_label(Some(p), lexeme_form_metadata) = correct_label

\* Two known codes given against the vocabulary's order, and a label returned.
C1_Witness ==
    /\ pc = "returned"
    /\ lexeme_form_metadata = VocabularyCaseNumber
    /\ qids = Some(<<Q9, Q1>>)
    /\ correct_label = <<"n", "o", "m", "P", "l">>

\* The label fragments of the entries whose code is in S, entry by entry in
\* the vocabulary's category-then-feature order.
RECURSIVE FragmentsInVocabularyOrder(_, _)
FragmentsInVocabularyOrder(entries, S) ==
    IF entries = <<>> THEN <<>>
    ELSE (IF Head(entries).qid \in S THEN Head(entries).label ELSE <<>>)
             \o FragmentsInVocabularyOrder(Tail(entries), S)

\* C2: for a non-empty list of known codes the result is the concatenation of
\* the fragments of exactly the given codes in the vocabulary's flattened
\* order, and it differs from that concatenation in its first character only,
\* which is lower-cased.
C2_LabelIsOrderedConcatenation ==
    (/\ pc = "returned"
     /\ ~qids.isNone
     /\ qids.v # <<>>
     /\ Range(qids.v) \subseteq KnownQids(lexeme_form_metadata))
    => LET whole == FragmentsInVocabularyOrder(
                        MetadataEntries(lexeme_form_metadata), Range(qids.v))
       IN  /\ Len(correct_label) = Len(whole)
           /\ \A i \in 1..Len(whole) :
                  correct_label[i] = IF i = 1 THEN Lower(whole[1]) ELSE whole[i]

\* Codes of two categories, given out of order and with a repetition; the
\* flattened order (Q2 before Q10) is not the sorted one.
C2_Witness ==
    /\ pc = "returned"
    /\ lexeme_form_metadata = VocabularyCaseNumber
    /\ qids = Some(<<Q10, Q2, Q10>>)
    /\ correct_label = <<"g", "e", "n", "S", "g">>

IsAscending(s) == \A i \in 1..(Len(s) - 1) : StrLess(s[i], s[i + 1])

\* C3: with a code absent from the vocabulary the result is
\* '<QID|QIDs> <codes> not included in lexeme_form.metadata.json', listing
\* exactly the distinct missing codes in ascending order, comma-separated,
\* with 'QID' for one missing code and 'QIDs' for more.
C3_MissingCodesMessage ==
    (/\ pc = "returned"
     /\ ~qids.isNone
     /\ ~(Range(qids.v) \subseteq KnownQids(lexeme_form_metadata)))
    => LET missing == Range(qids.v) \ KnownQids(lexeme_form_metadata)
       IN  \E listed \in [1..Cardinality(missing) -> missing] :
               /\ Range(listed) = missing
               /\ IsAscending(listed)
               /\ correct_label =
                      <<IF Cardinality(missing) = 1 THEN "QID" ELSE "QIDs">>
                          \o <<" ">> \o Join(listed, <<",", " ">>)
                          \o NotIncludedSuffix

\* Two missing codes given in descending order beside a known one.
C3_Witness ==
    /\ pc = "returned"
    /\ lexeme_form_metadata = VocabularyCaseNumber
    /\ qids = Some(<<Q30, Q1, Q3>>)
    /\ correct_label =
           <<"QIDs", " ", "Q", "3", ",", " ", "Q", "3", "0">> \o NotIncludedSuffix

\* C4: an empty or absent code collection yields exactly
\* 'Invalid query formatting found', whatever the vocabulary holds.
C4_EmptyIsInvalidFormatting ==
    (pc = "returned" /\ (qids.isNone \/ Len(qids.v) = 0))
    => correct_label = <<"Invalid query formatting found">>

\* The empty list, against a vocabulary that has entries.
C4_Witness ==
    /\ pc = "returned"
    /\ qids = Some(<<>>)
    /\ lexeme_form_metadata = VocabularyNumberCase
    /\ correct_label = InvalidQueryFormatting


-----------------------------------------------------------------------------
(* Text helpers shared by the checks that read a query text *)

\* Characters matched by \s (and removed by str.strip()).
IsSpace(c) == c \in {" ", "\n", "\r", "\t"}

\* Characters matched by \w.
WordCharacters == Range(Alphabet)

IsWord(c) == c \in WordCharacters

\* Characters matched by \d.
IsDigit(c) == c \in {"0", "1", "2", "3", "4", "5", "6", "7", "8", "9"}

\* s[i:] with i counted from 1.
From(s, i) == SubSeq(s, i, Len(s))

\* pattern is a prefix of s (re.match of a pattern of literals).
StartsWith(s, pattern) ==
    Len(s) >= Len(pattern) /\ SubSeq(s, 1, Len(pattern)) = pattern

\* str.strip()
RECURSIVE lstrip(_)
lstrip(s) == IF s # <<>> /\ IsSpace(Head(s)) THEN lstrip(Tail(s)) ELSE s

RECURSIVE rstrip(_)
rstrip(s) ==
    IF s # <<>> /\ IsSpace(s[Len(s)]) THEN rstrip(SubSeq(s, 1, Len(s) - 1)) ELSE s

strip(s) == rstrip(lstrip(s))

\* The length of the first line of a non-empty s with its line ending:
\* "\n", "\r\n" or "\r" end a line, and so does the end of the text.
FirstLineLen(s) ==
    IF \E i \in 1..Len(s) : s[i] \in {"\n", "\r"}
    THEN LET i == CHOOSE k \in 1..Len(s) :
                      /\ s[k] \in {"\n", "\r"}
                      /\ \A j \in 1..(k - 1) : s[j] \notin {"\n", "\r"}
         IN  IF s[i] = "\r" /\ i < Len(s) /\ s[i + 1] = "\n" THEN i + 1 ELSE i
    ELSE Len(s)

\* str.splitlines(keepends=True)
RECURSIVE splitlines(_)
splitlines(s) ==
    IF s = <<>> THEN <<>>
    ELSE <<SubSeq(s, 1, FirstLineLen(s))>> \o splitlines(From(s, FirstLineLen(s) + 1))

-----------------------------------------------------------------------------
(* check_docstring *)

ToolMarker == "# tool: scribe-data"

EnterThisQuery == "# Enter this query at https://query.wikidata.org/."

\* r"^# tool: scribe-data\n"
MatchesLine1(line) == StartsWith(line, <<ToolMarker, "\n">>)

\* line[a..b] is a non-empty run of \d.
IsDigits(line, a, b) == a <= b /\ \A x \in a..b : IsDigit(line[x])

\* line[a..b] is matched by .+ (anything but a newline, at least once).
IsDotPlus(line, a, b) == a <= b /\ \A x \in a..b : line[x] # "\n"

\* line[i..] starts with " (Q", a run of digits that ends before j, and ")".
IsQidAt(line, i, j) ==
    /\ i + 3 < j /\ j <= Len(line)
    /\ line[i] = " " /\ line[i + 1] = "(" /\ line[i + 2] = "Q"
    /\ IsDigits(line, i + 3, j - 1)
    /\ line[j] = ")"

\* r"^# All (.+?) \(Q\d+\) .+ \(Q\d+\) and the given forms\.\n"
MatchesLine2(line) ==
    /\ StartsWith(line, <<"# All", " ">>)
    /\ \E i \in 4..Len(line) :
           /\ IsDotPlus(line, 3, i - 1)
           /\ \E j \in (i + 4)..Len(line) :
                  /\ IsQidAt(line, i, j)
                  /\ j + 1 <= Len(line) /\ line[j + 1] = " "
                  /\ \E k \in (j + 3)..Len(line) :
                         /\ IsDotPlus(line, j + 2, k - 1)
                         /\ \E m \in (k + 4)..Len(line) :
                                /\ IsQidAt(line, k, m)
                                /\ StartsWith(From(line, m + 1),
                                              <<" ", "and the given forms.", "\n">>)

\* r"^# Enter this query at https://query\.wikidata\.org/\.\n"
MatchesLine3(line) == StartsWith(line, <<EnterThisQuery, "\n">>)

\* patterns[i]: the match of the i-th pattern and its error prefix.
PatternMatches(i, line) ==
    CASE i = 1 -> MatchesLine1(line)
      [] i = 2 -> MatchesLine2(line)
      [] i = 3 -> MatchesLine3(line)

ErrorInLine(i) ==
    CASE i = 1 -> "Error in line 1:"
      [] i = 2 -> "Error in line 2:"
      [] i = 3 -> "Error in line 3:"

ReturnsTrue == [raised |-> FALSE, ok |-> TRUE, msg |-> <<>>]

\* (False, f"{error_line_number} {query_lines[i].strip()}")
ReturnsFalse(i, line) ==
    [raised |-> FALSE, ok |-> FALSE, msg |-> <<ErrorInLine(i), " ">> \o strip(line)]

\* query_lines[i] with i past the end of the list.
RaisesIndexError == [raised |-> TRUE, ok |-> FALSE, msg |-> <<"IndexError">>]

\* next((False, ...) for i, (pattern, n) in enumerate(patterns)
\*      if not re.match(pattern, query_lines[i])), True)
\* evaluated from pattern i on.
RECURSIVE FirstMismatch(_, _)
FirstMismatch(query_lines, i) ==
    IF i > 3 THEN ReturnsTrue
    ELSE IF i > Len(query_lines) THEN RaisesIndexError
    ELSE IF ~PatternMatches(i, query_lines[i]) THEN ReturnsFalse(i, query_lines[i])
    ELSE FirstMismatch(query_lines, i + 1)

check_docstring(text) == FirstMismatch(splitlines(text), 1)

-----------------------------------------------------------------------------
(* Specification of one call of check_docstring *)

Line1Ok == <<ToolMarker, "\n">>

Line1Padded == <<" ", ToolMarker, " ", "\n">>

Line1Crlf == <<ToolMarker, "\r", "\n">>

Line2Ok ==
    <<"# All", " ", "n", " ", "(", "Q", "1", ")", " ", "f", " ",
      "(", "Q", "2", "0", ")", " ", "and the given forms.", "\n">>

\* The second identifier has no digits.
Line2NoDigits ==
    <<"# All", " ", "n", " ", "(", "Q", "1", ")", " ", "f", " ",
      "(", "Q", ")", " ", "and the given forms.", "\n">>

Line3Ok == <<EnterThisQuery, "\n">>

\* The last line of a file that does not end in a newline.
Line3Unterminated == <<EnterThisQuery>>

BodyLine == <<"SELECT", "\n">>

DocstringLines ==
    {Line1Ok, Line1Padded, Line1Crlf, Line2Ok, Line2NoDigits, Line3Ok,
     Line3Unterminated, BodyLine}

DocstringTexts == {Flatten(ls) : ls \in SeqsUpTo(DocstringLines, MaxLines)}

InitDocstring ==
    /\ NoCli
    /\ NoTranslation
    /\ lexeme_form_metadata = VocabularyEmpty
    /\ qids = None
    /\ correct_label = <<>>
    /\ query_text \in DocstringTexts
    /\ pc = "call"
    /\ docstring_result = NotCalled
    /\ forms_result = <<"not called">>
    /\ forms_locals = NoLocals
    /\ form_text = <<>>
    /\ form_checks = NoChecks
    /\ NoRun

CallCheckDocstring ==
    /\ UNCHANGED <<cliVars, translationVars>>
    /\ pc = "call"
    /\ docstring_result' = check_docstring(query_text)
    /\ pc' = "returned"
    /\ UNCHANGED <<lexeme_form_metadata, qids, correct_label, query_text,
                   forms_result, forms_locals, form_text, form_checks,
                   query_files, scanned, error_output, index, exit_status>>

NextDocstring == CallCheckDocstring

SpecDocstring == InitDocstring /\ [][NextDocstring]_vars


-----------------------------------------------------------------------------
(* Claim about check_docstring *)

\* C5: check_docstring checks the first three lines only: it returns success
\* when lines 1, 2 and 3 each match their template, and otherwise it returns
\* failure with the number and the trimmed text of the lowest-numbered line
\* that does not match; lines after the third never change the result.
C5_StrictThreeLineCheck ==
    pc = "returned"
    => LET lines == splitlines(query_text)
           Matches(k) == k <= Len(lines) /\ PatternMatches(k, lines[k])
           bad == {k \in 1..3 : ~Matches(k)}
           first == CHOOSE k \in bad : \A x \in bad : k <= x
           prefix == Flatten(SubSeq(lines, 1, IF Len(lines) < 3 THEN Len(lines) ELSE 3))
       IN  /\ ~docstring_result.raised
           /\ bad = {} => docstring_result = [raised |-> FALSE, ok |-> TRUE, msg |-> <<>>]
           /\ bad # {} =>
                  /\ ~docstring_result.ok
                  /\ docstring_result.msg =
                         <<ErrorInLine(first), " ">>
                             \o strip(IF first <= Len(lines) THEN lines[first] ELSE <<>>)
           /\ docstring_result = check_docstring(prefix)


-----------------------------------------------------------------------------
(* validate_forms: the regular expressions *)

Min(S) == CHOOSE x \in S : \A y \in S : x <= y

\* The first position from i on that holds no \s character (Len(t) + 1 if
\* there is none): where a greedy \s* that starts at i ends.
RECURSIVE SkipSpaces(_, _)
SkipSpaces(t, i) ==
    IF i <= Len(t) /\ IsSpace(t[i]) THEN SkipSpaces(t, i + 1) ELSE i

\* The first position from i on that holds no \w character: where a greedy
\* \w+ that starts at i ends.
RECURSIVE WordEnd(_, _)
WordEnd(t, i) ==
    IF i <= Len(t) /\ IsWord(t[i]) THEN WordEnd(t, i + 1) ELSE i

\* The elements of a set of positions in ascending order.
Ascending(S) ==
    [n \in 1..Cardinality(S) |->
        CHOOSE i \in S : Cardinality({j \in S : j < i}) = n - 1]

\* re.findall(r"\?(\w+)", t): a match starts at each "?" that a \w character
\* follows (matches cannot overlap: "?" is no \w character).
FindVars(t) ==
    LET starts == Ascending({i \in 1..(Len(t) - 1) : t[i] = "?" /\ IsWord(t[i + 1])})
    IN  [n \in 1..Len(starts) |->
            SubSeq(t, starts[n] + 1, WordEnd(t, starts[n] + 1) - 1)]

\* The match of r"SELECT\s+(.*?)\s+WHERE" (DOTALL) that starts at the SELECT
\* at position i, as None or Some(group 1). The first \s+ is greedy and
\* reaches g; the lazy group then ends before the first whitespace-preceded
\* WHERE after g; only if there is none does the first \s+ give back one
\* character, which can match when WHERE itself stands at g. (The group is
\* returned with the whitespace before WHERE: only its ?variables are read.)
SelectMatchAt(t, i) ==
    IF ~(t[i] = "SELECT" /\ i < Len(t) /\ IsSpace(t[i + 1])) THEN None
    ELSE LET g == SkipSpaces(t, i + 1)
             wheres == {j \in (g + 1)..Len(t) : t[j] = "WHERE" /\ IsSpace(t[j - 1])}
         IN  IF wheres # {} THEN Some(SubSeq(t, g, Min(wheres) - 1))
             ELSE IF g <= Len(t) /\ t[g] = "WHERE" /\ g >= i + 3 THEN Some(<<>>)
             ELSE None

\* re.search(select_pattern, query_text, flags=re.DOTALL)
select_match(t) ==
    LET starts == {i \in 1..Len(t) : t[i] = "SELECT" /\ ~SelectMatchAt(t, i).isNone}
    IN  IF starts = {} THEN None ELSE SelectMatchAt(t, Min(starts))

\* The tail r"wikibase:lemma\s*\?\s*(\w+)\s*[;.]\s*" matched at position k:
\* [ok, name (group 1), next (the position after the match)].
LemmaTailAt(t, k) ==
    LET q == SkipSpaces(t, k + 1)
        r == SkipSpaces(t, q + 1)
        e == WordEnd(t, r)
        z == SkipSpaces(t, e)
    IN  IF /\ t[k] = "wikibase:lemma"
           /\ q <= Len(t) /\ t[q] = "?"
           /\ r <= Len(t) /\ IsWord(t[r])
           /\ z <= Len(t) /\ t[z] \in {";", "."}
        THEN [ok |-> TRUE, name |-> SubSeq(t, r, e - 1), next |-> SkipSpaces(t, z + 1)]
        ELSE [ok |-> FALSE, name |-> <<>>, next |-> k]

\* The match of dt_pattern that starts at the WHERE at position i. After
\* "WHERE\s*\{" the lazy [^}]*? stops at the first lemma statement that no
\* closing brace precedes.
DtMatchAt(t, i) ==
    LET p == SkipSpaces(t, i + 1)
        braces == {x \in (p + 1)..Len(t) : t[x] = "}"}
        limit == IF braces = {} THEN Len(t) ELSE Min(braces) - 1
        lemmas == {k \in (p + 1)..limit : LemmaTailAt(t, k).ok}
    IN  IF t[i] = "WHERE" /\ p <= Len(t) /\ t[p] = "{" /\ lemmas # {}
        THEN LemmaTailAt(t, Min(lemmas))
        ELSE [ok |-> FALSE, name |-> <<>>, next |-> i]

\* re.findall(dt_pattern, t), scanning from position pos.
RECURSIVE DtFindAll(_, _)
DtFindAll(t, pos) ==
    LET starts == {i \in pos..Len(t) : t[i] = "WHERE" /\ DtMatchAt(t, i).ok}
    IN  IF starts = {} THEN <<>>
        ELSE <<DtMatchAt(t, Min(starts)).name>>
                 \o DtFindAll(t, DtMatchAt(t, Min(starts)).next)

\* The first position from i on that holds a space or a semicolon: where the
\* greedy [^ ;]+ that starts at i ends.
RECURSIVE FormNameEnd(_, _)
FormNameEnd(t, i) ==
    IF i <= Len(t) /\ t[i] \notin {" ", ";"} THEN FormNameEnd(t, i + 1) ELSE i

\* Whether forms_pattern matches at position i.
FormsMatchAt(t, i) ==
    /\ t[i] = "ontolex:representation"
    /\ i + 3 <= Len(t)
    /\ t[i + 1] = " " /\ t[i + 2] = "?"
    /\ t[i + 3] \notin {" ", ";"}

\* re.findall(r"ontolex:representation \?([^ ;]+)", t), scanning from pos:
\* the leftmost match, then the matches after its end.
RECURSIVE FormsFindAll(_, _)
FormsFindAll(t, pos) ==
    LET starts == {i \in pos..Len(t) : FormsMatchAt(t, i)}
    IN  IF starts = {} THEN <<>>
        ELSE <<SubSeq(t, Min(starts) + 3, FormNameEnd(t, Min(starts) + 3) - 1)>>
                 \o FormsFindAll(t, FormNameEnd(t, Min(starts) + 3))

-----------------------------------------------------------------------------
(* validate_forms: the variable lists and the checks *)

lexeme == <<"l", "e", "x", "e", "m", "e">>

lexemeID == <<"l", "e", "x", "e", "m", "e", "I", "D">>

lemma == <<"l", "e", "m", "m", "a">>

preposition == <<"p", "r", "e", "p", "o", "s", "i", "t", "i", "o", "n">>

case == <<"c", "a", "s", "e">>

gender == <<"g", "e", "n", "d", "e", "r">>

auxiliaryVerb == <<"a", "u", "x", "i", "l", "i", "a", "r", "y", "V", "e", "r", "b">>

\* for var in ["case", "gender", "auxiliaryVerb"]
LabelServiceVars == <<case, gender, auxiliaryVerb>>

NoSelectMatch == <<"Invalid query format: no SELECT match">>

DuplicateForms == "Duplicate forms found in SELECT: "

UndefinedForms == "Undefined forms found in SELECT: "

UnreturnedForms == "Defined but unreturned forms found: "

OrderMismatch ==
    "The order of variables in the SELECT statement does not match their order in the WHERE clause."

\* l[n:]
DropFirst(l, n) == IF Len(l) <= n THEN <<>> ELSE SubSeq(l, n + 1, Len(l))

\* l.index(x), counted from 0, for x in l.
IndexOf(l, x) == Min({i \in 1..Len(l) : l[i] = x}) - 1

\* l.insert(i, x) for i >= 0: an index past the end appends.
Insert(l, i, x) ==
    LET at == IF i > Len(l) THEN Len(l) ELSE i
    IN  SubSeq(l, 1, at) \o <<x>> \o SubSeq(l, at + 1, Len(l))

\* l.count(x)
Count(l, x) == Cardinality({i \in 1..Len(l) : l[i] = x})

\* [var for var in l if var not in ["lexeme", "lexemeID"]]
WithoutLexeme(l) == SelectSeq(l, LAMBDA var : var \notin {lexeme, lexemeID})

\* The orders in which a set may be iterated.
Orderings(S) == {f \in [1..Cardinality(S) -> S] : Range(f) = S}

\* select_vars = re.findall(r"\?(\w+)", select_match[1])[2:]
select_vars_of(t) == DropFirst(FindVars(select_match(t).v), 2)

\* where_vars before the labeling-service variables are inserted.
natural_where_vars(t) ==
    LET dt_match == DtFindAll(t, 1)
    IN  (IF dt_match = <<lemma>> THEN <<preposition>>
         ELSE IF dt_match # <<>> THEN <<dt_match[1]>>
         ELSE <<>>)
            \o FormsFindAll(t, 1)

\* for var in ["case", "gender", "auxiliaryVerb"]:
\*     if var in select_vars: where_vars.insert(select_vars.index(var), var)
\* from the n-th of the three variables on.
RECURSIVE InsertLabelServiceVars(_, _, _)
InsertLabelServiceVars(select_vars, where_vars, n) ==
    IF n > Len(LabelServiceVars) THEN where_vars
    ELSE InsertLabelServiceVars(
             select_vars,
             IF LabelServiceVars[n] \in Range(select_vars)
             THEN Insert(where_vars, IndexOf(select_vars, LabelServiceVars[n]),
                         LabelServiceVars[n])
             ELSE where_vars,
             n + 1)

\* len(select_vars) != len(set(select_vars))
uniqueness_forms_check(select_vars) == Len(select_vars) # Cardinality(Range(select_vars))

\* set(select_vars) - set(where_vars)
undefined_forms(select_vars, where_vars) == Range(select_vars) \ Range(where_vars)

\* Mutant: every pattern variable counts as unreturned.
unreturned_forms_all(select_vars, where_vars) == Range(where_vars)

\* set(where_vars) - set(select_vars)
unreturned_forms(select_vars, where_vars) == Range(where_vars) \ Range(select_vars)

\* set(duplicates), with duplicates taken from the filtered select_vars
duplicates(select_vars) ==
    {var \in Range(WithoutLexeme(select_vars)) : Count(WithoutLexeme(select_vars), var) > 1}

\* Mutant: the order of the two lists is never compared.
ErrorMessages_without_order(select_vars, where_vars) ==
    IF uniqueness_forms_check(select_vars)
    THEN {<< <<DuplicateForms>> \o Join(order, <<",", " ">>) >> :
             order \in Orderings(duplicates(select_vars))}
    ELSE IF undefined_forms(select_vars, where_vars) # {}
    THEN {<< <<UndefinedForms>>
                \o Join(Sorted(undefined_forms(select_vars, where_vars)), <<",", " ">>) >>}
    ELSE IF unreturned_forms(select_vars, where_vars) # {}
    THEN {<< <<UnreturnedForms>>
                \o Join(Sorted(unreturned_forms(select_vars, where_vars)), <<",", " ">>) >>}
    ELSE {<<>>}

\* Mutant: undefined forms are looked for before duplicates.
ErrorMessages_undefined_first(select_vars, where_vars) ==
    IF undefined_forms(select_vars, where_vars) # {}
    THEN {<< <<UndefinedForms>>
                \o Join(Sorted(undefined_forms(select_vars, where_vars)), <<",", " ">>) >>}
    ELSE IF uniqueness_forms_check(select_vars)
    THEN {<< <<DuplicateForms>> \o Join(order, <<",", " ">>) >> :
             order \in Orderings(duplicates(select_vars))}
    ELSE IF unreturned_forms(select_vars, where_vars) # {}
    THEN {<< <<UnreturnedForms>>
                \o Join(Sorted(unreturned_forms(select_vars, where_vars)), <<",", " ">>) >>}
    ELSE IF WithoutLexeme(select_vars) # WithoutLexeme(where_vars)
    THEN {<< <<OrderMismatch>> >>}
    ELSE {<<>>}

\* The if/elif chain on the two lists: the values error_messages can take.
\* set(duplicates) is joined in the iteration order of a set of str, which
\* differs from run to run.
ErrorMessages(select_vars, where_vars) ==
    IF uniqueness_forms_check(select_vars)
    THEN {<< <<DuplicateForms>> \o Join(order, <<",", " ">>) >> :
             order \in Orderings(duplicates(select_vars))}
    ELSE IF undefined_forms(select_vars, where_vars) # {}
    THEN {<< <<UndefinedForms>>
                \o Join(Sorted(undefined_forms(select_vars, where_vars)), <<",", " ">>) >>}
    ELSE IF unreturned_forms(select_vars, where_vars) # {}
    THEN {<< <<UnreturnedForms>>
                \o Join(Sorted(unreturned_forms(select_vars, where_vars)), <<",", " ">>) >>}
    ELSE IF WithoutLexeme(select_vars) # WithoutLexeme(where_vars)
    THEN {<< <<OrderMismatch>> >>}
    ELSE {<<>>}

\* Mutant: without a SELECT match the checks run on an empty selection list.
ValidateFormsRuns_checks_anyway(t) ==
    LET select_vars == select_vars_of(t)
        where_vars == InsertLabelServiceVars(select_vars, natural_where_vars(t), 1)
    IN  {[result |-> Join(error_messages, <<"\n">>),
          locals |-> [matched |-> ~select_match(t).isNone, select_vars |-> select_vars,
                      where_vars |-> where_vars]] :
            error_messages \in ErrorMessages(select_vars, where_vars)}

\* The runs of validate_forms(query_text): the value returned,
\* "\n".join(error_messages) if error_messages else "", with the locals.
ValidateFormsRuns(t) ==
    IF select_match(t).isNone
    THEN {[result |-> NoSelectMatch, locals |-> NoLocals]}
    ELSE LET select_vars == select_vars_of(t)
             where_vars == InsertLabelServiceVars(select_vars, natural_where_vars(t), 1)
         IN  {[result |-> Join(error_messages, <<"\n">>),
               locals |-> [matched |-> TRUE, select_vars |-> select_vars,
                           where_vars |-> where_vars]] :
                 error_messages \in ErrorMessages(select_vars, where_vars)}

\* The values validate_forms(query_text) can return.
validate_forms(t) == {run.result : run \in ValidateFormsRuns(t)}

-----------------------------------------------------------------------------
(* Specification of one call of validate_forms *)

\* Two ordinary form variables.
FormA == <<"a">>

FormB == <<"b">>

\* "  ?name\n" for each name of the list.
RECURSIVE SelectLines(_)
SelectLines(names) ==
    IF names = <<>> THEN <<>>
    ELSE <<" ", " ", "?">> \o Head(names) \o <<"\n">> \o SelectLines(Tail(names))

\* The statement that binds the lemma, with the terminator that ends the
\* first block of the WHERE clause.
LemmaLines(optLemma) ==
    IF optLemma.isNone THEN <<" ", ".", "\n">>
    ELSE <<" ", ";", "\n", " ", " ", " ", " ", "wikibase:lemma", " ", "?">>
             \o optLemma.v \o <<" ", ".", "\n">>

\* One OPTIONAL block that binds the representation of a form.
FormBlock(name) ==
    <<"\n", " ", " ", "OPTIONAL", " ", "{", "\n",
      " ", " ", " ", " ", "?">> \o lexeme \o <<" ", "ontolex:lexicalForm", " ", "?">>
        \o name \o <<"F", "o", "r", "m", " ", ".", "\n",
      " ", " ", " ", " ", "?">> \o name \o <<"F", "o", "r", "m", " ",
      "ontolex:representation", " ", "?">> \o name \o <<" ", ";", "\n",
      " ", " ", "}", "\n">>

RECURSIVE FormBlocks(_)
FormBlocks(names) ==
    IF names = <<>> THEN <<>> ELSE FormBlock(Head(names)) \o FormBlocks(Tail(names))

\* A query that selects head and then selected, binds optLemma as the lemma
\* and has one form block for each of forms.
BuildQuery(head, selected, optLemma, forms) ==
    <<"SELECT", "\n">> \o SelectLines(head \o selected)
        \o <<"\n", "WHERE", " ", "{", "\n", " ", " ", "?">> \o lexeme
        \o <<" ", "dct:language", " ", "wd:Q1860">> \o LemmaLines(optLemma)
        \o FormBlocks(forms) \o <<"}", "\n">>

SelectNames == {FormA, FormB, lexeme, case, gender, auxiliaryVerb}

FormNames == {FormA, FormB}

LemmaChoices == {None, Some(FormA), Some(lemma)}

\* A query of prepositions with a subquery: both WHERE clauses bind ?lemma.
NestedLemmaQuery ==
    <<"SELECT", "\n">> \o SelectLines(<<lexeme, lexemeID, preposition>>)
        \o <<"\n", "WHERE", " ", "{", "\n", " ", " ", "?">> \o lexeme
        \o <<" ", "dct:language", " ", "wd:Q1860">> \o LemmaLines(Some(lemma))
        \o <<" ", " ", "{", " ", "SELECT", " ", "?">> \o lexeme
        \o <<" ", "WHERE", " ", "{", " ", "?">> \o lexeme
        \o <<" ", "wikibase:lemma", " ", "?">> \o lemma
        \o <<" ", ".", " ", "}", " ", "}", "\n", "}", "\n">>

\* Texts without a SELECT ... WHERE span, texts whose first two selected
\* variables are not ?lexeme and ?lexemeID, and the query with a subquery.
OtherQueryTexts ==
    {<<"WHERE", " ", "{", " ", "}", "\n">>,
     <<"SELECT", " ", "WHERE", " ", "{", " ", "}", "\n">>,
     <<"SELECT", " ", " ", "WHERE", " ", "{", " ", "}", "\n">>,
     BuildQuery(<<>>, <<FormA, FormB, FormA>>, None, <<FormA>>),
     BuildQuery(<<>>, <<FormA>>, None, <<>>),
     BuildQuery(<<FormB>>, <<FormA, FormA, FormA>>, Some(FormA), <<>>),
     DropFirst(BuildQuery(<<lexeme, lexemeID>>, <<FormA, FormA>>, None, <<FormB>>), 1),
     NestedLemmaQuery}

InitForms ==
    /\ NoCli
    /\ NoTranslation
    /\ lexeme_form_metadata = VocabularyEmpty
    /\ qids = None
    /\ correct_label = <<>>
    /\ docstring_result = NotCalled
    /\ \/ \E selected \in SeqsUpTo(SelectNames, MaxSelect),
               optLemma \in LemmaChoices,
               forms \in SeqsUpTo(FormNames, MaxForms) :
               query_text = BuildQuery(<<lexeme, lexemeID>>, selected, optLemma, forms)
       \/ query_text \in OtherQueryTexts
    /\ pc = "call"
    /\ forms_result = <<"not called">>
    /\ forms_locals = NoLocals
    /\ form_text = <<>>
    /\ form_checks = NoChecks
    /\ NoRun

CallValidateForms ==
    /\ UNCHANGED <<cliVars, translationVars>>
    /\ pc = "call"
    /\ \E run \in ValidateFormsRuns(query_text) :
           /\ forms_result' = run.result
           /\ forms_locals' = run.locals
    /\ pc' = "returned"
    /\ UNCHANGED <<lexeme_form_metadata, qids, correct_label, query_text,
                   docstring_result, form_text, form_checks,
                   query_files, scanned, error_output, index, exit_status>>

NextForms == CallValidateForms

SpecForms == InitForms /\ [][NextForms]_vars


-----------------------------------------------------------------------------
(* Claims about validate_forms.  "Selection list" is select_vars, the        *)
(* variables of the SELECT clause after its first two; "pattern list" is     *)
(* where_vars after the labeling-service variables are inserted.             *)

\* The list without lexeme and lexemeID.
DropLexemeVars(l) == SelectSeq(l, LAMBDA v : v # lexeme /\ v # lexemeID)

HasDuplicate(l) == \E i, j \in 1..Len(l) : i # j /\ l[i] = l[j]

SameElementwise(l, m) == Len(l) = Len(m) /\ \A i \in 1..Len(l) : l[i] = m[i]

\* The four checks, on the lists as validate_forms holds them.
UniquenessFails == HasDuplicate(forms_locals.select_vars)

CompletenessFails ==
    \E i \in 1..Len(forms_locals.select_vars) :
        forms_locals.select_vars[i] \notin Range(forms_locals.where_vars)

NoDeadBindingsFails ==
    \E i \in 1..Len(forms_locals.where_vars) :
        forms_locals.where_vars[i] \notin Range(forms_locals.select_vars)

OrderFails ==
    ~SameElementwise(DropLexemeVars(forms_locals.select_vars),
                     DropLexemeVars(forms_locals.where_vars))

FormsReturned == pc = "returned" /\ forms_locals.matched

\* C6: for a text with a SELECT ... WHERE span, validate_forms returns the
\* empty string exactly when the selection list has no duplicate, every
\* selection variable is in the pattern list, every pattern variable is in
\* the selection list, and the two lists without lexeme/lexemeID are
\* element-wise identical; otherwise the returned string is not empty.
C6_EmptyExactlyWhenAllChecksPass ==
    FormsReturned
    => (forms_result = <<>>
           <=> (/\ ~UniquenessFails
                /\ ~CompletenessFails
                /\ ~NoDeadBindingsFails
                /\ ~OrderFails))

\* A query that passes all four checks, with a labeling-service variable
\* between two forms.
C6_Witness ==
    /\ FormsReturned
    /\ forms_result = <<>>
    /\ forms_locals.select_vars = <<FormA, gender, FormB>>
    /\ forms_locals.where_vars = <<FormA, gender, FormB>>

MessageKinds == {DuplicateForms, UndefinedForms, UnreturnedForms, OrderMismatch}

\* C7: the returned string carries at most one problem, the one of the
\* highest-priority failing check in the order uniqueness, completeness,
\* no dead bindings, order; a duplicate masks everything else.
C7_OnlyHighestPriorityProblem ==
    FormsReturned
    => /\ Cardinality({i \in 1..Len(forms_result) : forms_result[i] \in MessageKinds}) <= 1
       /\ UniquenessFails
              => forms_result # <<>> /\ forms_result[1] = DuplicateForms
       /\ (~UniquenessFails /\ CompletenessFails)
              => forms_result # <<>> /\ forms_result[1] = UndefinedForms
       /\ (~UniquenessFails /\ ~CompletenessFails /\ NoDeadBindingsFails)
              => forms_result # <<>> /\ forms_result[1] = UnreturnedForms
       /\ (~UniquenessFails /\ ~CompletenessFails /\ ~NoDeadBindingsFails /\ OrderFails)
              => forms_result = <<OrderMismatch>>

\* A duplicate together with an undefined variable and a different order:
\* only the duplicate is reported.
C7_Witness ==
    /\ FormsReturned
    /\ forms_locals.select_vars = <<FormB, FormA, FormA>>
    /\ forms_locals.where_vars = <<FormA>>
    /\ forms_result = <<DuplicateForms, "a">>

\* C8: when the selection list holds a variable more than once, the duplicate
\* error is returned and it names every variable that occurs more than once
\* and no other.
C8_DuplicateErrorNamesDuplicates ==
    (FormsReturned /\ UniquenessFails)
    => LET sv == forms_locals.select_vars
           repeated == {v \in Range(sv) : Count(sv, v) > 1}
       IN  \E named \in Orderings(repeated) :
               forms_result = <<DuplicateForms>> \o Join(named, <<",", " ">>)

\* C9: each of case, gender and auxiliaryVerb that is in the selection list
\* stands, when the order is compared, in the pattern list at the index it
\* has in the selection list.
C9_LabelServiceVarsKeepTheirIndex ==
    FormsReturned
    => \A n \in 1..Len(LabelServiceVars) :
           LET var == LabelServiceVars[n]
               sv == forms_locals.select_vars
               wv == forms_locals.where_vars
           IN  var \in Range(sv)
                   => /\ IndexOf(sv, var) + 1 <= Len(wv)
                      /\ wv[IndexOf(sv, var) + 1] = var

\* C10: with no duplicate, the 'Undefined forms found in SELECT' error is
\* returned exactly when a selection variable other than lexeme/lexemeID is
\* missing from the pattern list, and it names exactly the missing ones.
C10_UndefinedErrorNamesMissing ==
    (FormsReturned /\ ~UniquenessFails)
    => LET missing == Range(DropLexemeVars(forms_locals.select_vars))
                          \ Range(DropLexemeVars(forms_locals.where_vars))
       IN  IF missing = {}
           THEN UndefinedForms \notin Range(forms_result)
           ELSE \E named \in Orderings(missing) :
                    forms_result = <<UndefinedForms>> \o Join(named, <<",", " ">>)

\* C11: with no duplicate and no undefined selection variable, the 'Defined
\* but unreturned forms found' error is returned exactly when a pattern
\* variable is not in the selection list, and it names exactly those.
C11_UnreturnedErrorNamesUnreturned ==
    (FormsReturned /\ ~UniquenessFails /\ ~CompletenessFails)
    => LET sv == forms_locals.select_vars
           wv == forms_locals.where_vars
           dead == {wv[i] : i \in {k \in 1..Len(wv) : \A j \in 1..Len(sv) : sv[j] # wv[k]}}
       IN  IF dead = {}
           THEN UnreturnedForms \notin Range(forms_result)
           ELSE \E named \in Orderings(dead) :
                    forms_result = <<UnreturnedForms>> \o Join(named, <<",", " ">>)

\* Two forms are bound, in the order b, a, and none of them is selected
\* beside gender: both are named.
C11_Witness ==
    /\ FormsReturned
    /\ forms_locals.select_vars = <<gender>>
    /\ forms_locals.where_vars = <<gender, FormB, FormA>>
    /\ forms_result = <<UnreturnedForms, "a", ",", " ", "b">>

\* A SELECT ... WHERE span: SELECT, whitespace, any text, whitespace, WHERE,
\* the two whitespace characters being different ones.
HasSelectWhereSpan(t) ==
    \E i \in 1..Len(t) :
        /\ t[i] = "SELECT"
        /\ \E j \in (i + 3)..Len(t) :
               t[j] = "WHERE" /\ IsSpace(t[i + 1]) /\ IsSpace(t[j - 1])

\* C12: for a text without a SELECT ... WHERE span validate_forms returns
\* 'Invalid query format: no SELECT match' as a value and none of the four
\* checks runs: no other message is returned, the lists are never built.
C12_NoSelectIsStructuralError ==
    (pc = "returned" /\ forms_result # <<"not called">>)
    => /\ ~HasSelectWhereSpan(query_text)
           => /\ forms_result = <<"Invalid query format: no SELECT match">>
              /\ ~forms_locals.matched
       /\ HasSelectWhereSpan(query_text)
           => NoSelectMatch[1] \notin Range(forms_result)

\* A text without the SELECT keyword whose selection would have a duplicate
\* and whose WHERE clause binds a form: only the structural error is returned.
C12_Witness ==
    /\ pc = "returned"
    /\ query_text = DropFirst(BuildQuery(<<lexeme, lexemeID>>, <<FormA, FormA>>, None, <<FormB>>), 1)
    /\ forms_result = NoSelectMatch
    /\ ~forms_locals.matched

-----------------------------------------------------------------------------
(* The functions that read one OPTIONAL block.  A block text is a str whose  *)
(* atoms are characters and the tokens "ontolex:lexicalForm",                *)
(* "ontolex:representation", "wikibase:grammaticalFeature" and "wd:"; a      *)
(* token holds no whitespace, comma, period, semicolon or question mark.     *)

Max(S) == CHOOSE x \in S : \A y \in S : x >= y

\* The least position from start on at which pat occurs in s, 0 if none.
Find(s, pat, start) ==
    LET hits == {i \in start..(Len(s) - Len(pat) + 1) :
                    SubSeq(s, i, i + Len(pat) - 1) = pat}
    IN  IF hits = {} THEN 0 ELSE Min(hits)

\* s.split(sep)
RECURSIVE split(_, _)
split(s, sep) ==
    IF Find(s, sep, 1) = 0 THEN <<s>>
    ELSE <<SubSeq(s, 1, Find(s, sep, 1) - 1)>>
             \o split(From(s, Find(s, sep, 1) + Len(sep)), sep)

\* The position of the first newline from i on, Len(t) + 1 if there is none:
\* "." matches every character but the newline.
LineEnd(t, i) ==
    LET ends == {k \in i..Len(t) : t[k] = "\n"}
    IN  IF ends = {} THEN Len(t) + 1 ELSE Min(ends)

\* The match, starting at i, of a pattern  prefix .* suffix  (least = 0) or
\* prefix .+ suffix  (least = 1) of literals: the position of its last
\* character, 0 if it does not match. The greedy middle runs up to the last
\* occurrence of the suffix on the line.
LineMatchEnd(t, i, prefix, suffix, least) ==
    IF i + Len(prefix) - 1 > Len(t) THEN 0
    ELSE IF SubSeq(t, i, i + Len(prefix) - 1) # prefix THEN 0
    ELSE LET ends == {e \in (i + Len(prefix) + least)..(LineEnd(t, i) - Len(suffix)) :
                         SubSeq(t, e, e + Len(suffix) - 1) = suffix}
         IN  IF ends = {} THEN 0 ELSE Max(ends) + Len(suffix) - 1

\* re.search of such a pattern: the leftmost match, as None or Some(match[0]).
SearchLine(t, prefix, suffix, least) ==
    LET starts == {i \in 1..Len(t) : LineMatchEnd(t, i, prefix, suffix, least) # 0}
    IN  IF starts = {} THEN None
        ELSE Some(SubSeq(t, Min(starts),
                         LineMatchEnd(t, Min(starts), prefix, suffix, least)))

\* re.search(r".*\?(.*)C", m) for a one-line m and a character C, as None or
\* Some(group 1): the greedy .* stops at the last "?" that a C follows, and
\* the greedy group runs up to the last C.
LastGroup(m, C) ==
    LET sigils == {p \in 1..Len(m) : m[p] = "?" /\ \E e \in (p + 1)..Len(m) : m[e] = C}
    IN  IF sigils = {} THEN None
        ELSE Some(SubSeq(m, Max(sigils) + 1,
                         Max({e \in (Max(sigils) + 1)..Len(m) : m[e] = C}) - 1))

\* A value returned, or the exception raised in its place.
Returns(x) == [raised |-> "no", v |-> x]

Raises(exception) == [raised |-> exception, v |-> <<>>]

\* onto_rep_pattern = r"ontolex:representation .* ;", rep_label_pattern =
\* r".*\?(.*);": the stripped label, or None (the function falls off its end).
extract_form_rep_label(text) ==
    LET line_match == SearchLine(text, <<"ontolex:representation", " ">>, <<" ", ";">>, 0)
    IN  IF line_match.isNone THEN None
        ELSE IF LastGroup(line_match.v, ";").isNone THEN None
        ELSE Some(strip(LastGroup(line_match.v, ";").v))

\* q.split("wd:")[1].split(" .")[0]: there is no element 1 when q holds no "wd:".
QidOf(q) ==
    IF Len(split(q, <<"wd:">>)) < 2 THEN Raises("IndexError")
    ELSE Returns(split(split(q, <<"wd:">>)[2], <<" ", ".">>)[1])

\* qids_pattern = r"wikibase:grammaticalFeature .+ \.":
\* [q.split("wd:")[1].split(" .")[0] for q in match[0].split(", ")], or None.
extract_form_qids(text) ==
    LET match == SearchLine(text, <<"wikibase:grammaticalFeature", " ">>, <<" ", ".">>, 1)
        parts == split(match.v, <<",", " ">>)
    IN  IF match.isNone THEN Returns(None)
        ELSE IF \E n \in 1..Len(parts) : QidOf(parts[n]).raised # "no"
        THEN Raises("IndexError")
        ELSE Returns(Some([n \in 1..Len(parts) |-> QidOf(parts[n]).v]))

FormSuffix == <<"F", "o", "r", "m">>

\* Lines 161-165 of check_form_label, given label_match: form_rep_label is
\* assigned only when the match is found, and reading it otherwise raises
\* UnboundLocalError.
CompareLabels(current_form_rep_label, label_match) ==
    IF label_match.isNone THEN Raises("UnboundLocalError")
    ELSE Returns(strip(label_match.v) = current_form_rep_label)

\* Lines 158-165, given the match of onto_rep_pattern.
CheckRepresentation(current_form_rep_label, line_match) ==
    IF line_match.isNone THEN Returns(FALSE)
    ELSE CompareLabels(current_form_rep_label, LastGroup(line_match.v, ";"))

\* Lines 149-165, given form_label. It is interpolated into a regular
\* expression; the form labels of the model hold word characters only, which
\* match themselves.
CheckFormLabel(text, form_label) ==
    CheckRepresentation(
        split(form_label, FormSuffix)[1],
        SearchLine(text, form_label \o <<" ", "ontolex:representation", " ">>,
                   <<" ", ";">>, 0))

\* Lines 146-165, given the match of form_label_pattern in the lexicalForm
\* statement: form_label is assigned only when the match is found.
CheckLabelMatch(text, label_match) ==
    IF label_match.isNone THEN Raises("UnboundLocalError")
    ELSE CheckFormLabel(text, strip(label_match.v))

\* Lines 145-165, given the match of form_label_line_pattern.
CheckLexicalForm(text, line_match) ==
    IF line_match.isNone THEN Returns(FALSE)
    ELSE CheckLabelMatch(text, LastGroup(line_match.v, "."))

check_form_label(text) ==
    CheckLexicalForm(
        text,
        SearchLine(text, <<"?">> \o lexeme \o <<" ", "ontolex:lexicalForm", " ">>,
                   <<" ", ".">>, 0))

\* Mutant: a space before a comma goes unnoticed.
check_query_formatting_periods_only(text) ==
    ~\E i \in 1..(Len(text) - 1) : ~IsSpace(text[i]) /\ text[i + 1] \in {".", ";"}

\* Mutant: every block counts as badly formatted.
check_query_formatting_never(text) == FALSE

\* re.search(r"\s,", form_text) and re.search(r"\S[.;]", form_text)
check_query_formatting(text) ==
    IF \E i \in 1..(Len(text) - 1) : IsSpace(text[i]) /\ text[i + 1] = "," THEN FALSE
    ELSE IF \E i \in 1..(Len(text) - 1) : ~IsSpace(text[i]) /\ text[i + 1] \in {".", ";"}
    THEN FALSE
    ELSE TRUE

\* The item of query_form_check_dict for a block, given what
\* check_form_label and extract_form_qids do for it; an exception of one of
\* them ends the sequence of calls.
FormChecksOf(text, metadata, check, form_qids) ==
    [raised |-> IF check.raised # "no" THEN check.raised ELSE form_qids.raised,
     correct_formatting |-> check_query_formatting(text),
     form_rep_label |-> extract_form_rep_label(text),
     form_rep_match |-> check.raised = "no" /\ check.v,
     qids |-> IF check.raised = "no" /\ form_qids.raised = "no"
              THEN form_qids.v ELSE None,
     correct_form_rep_label |->
         IF check.raised = "no" /\ form_qids.raised = "no"
         THEN return_correct_form_label(form_qids.v, metadata) ELSE <<>>]

\* Lines 398-409 of check_query_forms: the five functions in the order they
\* are called.
FormChecks(text, metadata) ==
    FormChecksOf(text, metadata, check_form_label(text), extract_form_qids(text))

-----------------------------------------------------------------------------
(* Specification of the five per-block functions on one block text *)

NomSg == <<"n", "o", "m", "S", "g">>

GenPl == <<"g", "e", "n", "P", "l">>

NomPl == <<"n", "o", "m", "P", "l">>

Wd(q) == <<"wd:">> \o q

\* The text between the braces of an OPTIONAL block: the lexicalForm
\* statement binds ?<form>, the representation statement has ?<subject> as
\* its subject and <sigil><rep> as its object, and the grammaticalFeature
\* statement lists the features, separated by <comma>.
BlockText(form, period, subject, sigil, rep, features, comma) ==
    <<"\n", " ", " ", " ", " ", "?">> \o lexeme \o <<" ", "ontolex:lexicalForm", " ", "?">>
        \o form \o period \o <<"\n", " ", " ", " ", " ", "?">> \o subject
        \o <<" ", "ontolex:representation", " ">> \o sigil \o rep \o <<" ", ";", "\n">>
        \o (IF features = <<>> THEN <<>>
            ELSE <<" ", " ", " ", " ", " ", " ", "wikibase:grammaticalFeature", " ">>
                     \o Join(features, comma) \o <<" ", ".", "\n">>)
        \o <<" ", " ">>

\* A block as the data directory has them.
PlainBlock(rep, features) ==
    BlockText(rep \o FormSuffix, <<" ", ".">>, rep \o FormSuffix, <<"?">>, rep,
              features, <<",", " ">>)

BlockNomSg == PlainBlock(NomSg, <<Wd(Q10), Wd(Q1)>>)

BlockGenPl == PlainBlock(GenPl, <<Wd(Q2), Wd(Q9)>>)

\* The label is not the one of the features.
BlockWrongLabel == PlainBlock(NomPl, <<Wd(Q1), Wd(Q10)>>)

\* One feature code is not in the vocabulary.
BlockMissingCode == PlainBlock(NomSg, <<Wd(Q1), Wd(Q3)>>)

\* The form variable does not carry the representation label.
BlockMismatch ==
    BlockText(GenPl \o FormSuffix, <<" ", ".">>, GenPl \o FormSuffix, <<"?">>, NomSg,
              <<Wd(Q1), Wd(Q10)>>, <<",", " ">>)

\* A space before the comma of the feature list.
BlockSpaceComma ==
    BlockText(NomSg \o FormSuffix, <<" ", ".">>, NomSg \o FormSuffix, <<"?">>, NomSg,
              <<Wd(Q1), Wd(Q10)>>, <<" ", ",", " ">>)

\* No space before the period of the lexicalForm statement.
BlockNoSpacePeriod ==
    BlockText(NomSg \o FormSuffix, <<".">>, NomSg \o FormSuffix, <<"?">>, NomSg,
              <<Wd(Q1), Wd(Q10)>>, <<",", " ">>)

\* A feature entry without the "wd:" prefix.
BlockNoPrefix == PlainBlock(NomSg, <<Wd(Q1), Q10>>)

\* No grammaticalFeature statement.
BlockNoFeatures == PlainBlock(NomSg, <<>>)

\* The object of the representation statement lacks its "?".
BlockNoSigil ==
    BlockText(NomSg \o FormSuffix, <<" ", ".">>, NomSg \o FormSuffix, <<>>, NomSg,
              <<Wd(Q1), Wd(Q10)>>, <<",", " ">>)

\* A block that binds something else than a form.
BlockNoLexicalForm ==
    <<"\n", " ", " ", " ", " ", "?">> \o lexeme
        \o <<" ", "w", "d", "t", " ", "?">> \o GenPl \o <<" ", ".", "\n", " ", " ">>

BlockTexts ==
    {BlockNomSg, BlockGenPl, BlockWrongLabel, BlockMissingCode, BlockMismatch,
     BlockSpaceComma, BlockNoSpacePeriod, BlockNoPrefix, BlockNoFeatures,
     BlockNoSigil, BlockNoLexicalForm}

\* Longest text of punctuation handed to the per-block functions.
MaxText == 5

PunctuationCharacters == {" ", "\t", ",", ".", ";", "a"}

InitFormBlock ==
    /\ NoCli
    /\ NoTranslation
    /\ lexeme_form_metadata = VocabularyCaseNumber
    /\ qids = None
    /\ correct_label = <<>>
    /\ query_text = <<>>
    /\ docstring_result = NotCalled
    /\ forms_result = <<"not called">>
    /\ forms_locals = NoLocals
    /\ form_text \in BlockTexts \cup SeqsUpTo(PunctuationCharacters, MaxText)
    /\ form_checks = NoChecks
    /\ pc = "call"
    /\ NoRun

CallFormFunctions ==
    /\ UNCHANGED <<cliVars, translationVars>>
    /\ pc = "call"
    /\ form_checks' = FormChecks(form_text, lexeme_form_metadata)
    /\ pc' = "returned"
    /\ UNCHANGED <<lexeme_form_metadata, qids, correct_label, query_text,
                   docstring_result, forms_result, forms_locals, form_text,
                   query_files, scanned, error_output, index, exit_status>>

NextFormBlock == CallFormFunctions

SpecFormBlock == InitFormBlock /\ [][NextFormBlock]_vars

-----------------------------------------------------------------------------
(* Claims about the per-block functions *)

C19_CoreNeverRaises ==
    /\ ~docstring_result.raised
    /\ pc = "returned" => form_checks.raised = "no"

-----------------------------------------------------------------------------
(* check_query_forms: the scan of the data directory.  A query file is a    *)
(* record [text, reads]: its content, and how many of the reads of the file  *)
(* succeed before one fails (check_query_forms reads a file three times).    *)

\* Whether r"\s\sOPTIONAL\s*\{([^}]*)\}" matches at position i.
OptionalMatchAt(t, i) ==
    /\ i + 3 <= Len(t)
    /\ IsSpace(t[i]) /\ IsSpace(t[i + 1]) /\ t[i + 2] = "OPTIONAL"
    /\ SkipSpaces(t, i + 3) <= Len(t)
    /\ t[SkipSpaces(t, i + 3)] = "{"
    /\ \E c \in (SkipSpaces(t, i + 3) + 1)..Len(t) : t[c] = "}"

\* [match[1] for match in re.finditer(optional_pattern, query_text)],
\* scanning from pos: the leftmost match, then the matches after its end.
RECURSIVE OptionalFindAll(_, _)
OptionalFindAll(t, pos) ==
    LET starts == {i \in pos..Len(t) : OptionalMatchAt(t, i)}
        open == SkipSpaces(t, Min(starts) + 3)
        close == Min({c \in (open + 1)..Len(t) : t[c] = "}"})
    IN  IF starts = {} THEN <<>>
        ELSE <<SubSeq(t, open + 1, close - 1)>> \o OptionalFindAll(t, close + 1)

\* extract_forms_from_sparql as the n-th read of the file: an error of the
\* read is caught and printed, and None is returned.
extract_forms_from_sparql(file, n) ==
    IF n <= file.reads THEN Some(OptionalFindAll(file.text, 1)) ELSE None

\* query_form_check_dict[k] = v: a key that is present keeps its place.
DictSet(dict, k, v) ==
    IF \E i \in 1..Len(dict) : dict[i].k = k
    THEN [i \in 1..Len(dict) |-> IF dict[i].k = k THEN [k |-> k, v |-> v] ELSE dict[i]]
    ELSE Append(dict, [k |-> k, v |-> v])

\* The loop of lines 393-409 over the blocks that are left, as the dictionary
\* returned or the exception one of the per-block functions raised.
RECURSIVE query_form_check_dict(_, _, _)
RECURSIVE AddFormChecks(_, _, _, _)
AddFormChecks(checks, blocks, metadata, dict) ==
    IF checks.raised # "no" THEN Raises(checks.raised)
    ELSE query_form_check_dict(blocks, metadata,
                               DictSet(dict, checks.form_rep_label, checks))

query_form_check_dict(blocks, metadata, dict) ==
    IF blocks = <<>> THEN Returns(dict)
    ELSE IF ~({"ontolex:lexicalForm", "ontolex:representation"} \subseteq Range(Head(blocks)))
    THEN query_form_check_dict(Tail(blocks), metadata, dict)
    ELSE AddFormChecks(FormChecks(Head(blocks), metadata), Tail(blocks), metadata, dict)

FormattingMessage ==
    <<"Invalid query formatting found - please put spaces before all periods and semicolons and also remove spaces before commas.">>

MismatchMessage == <<"Form and representation labels don't match">>

\* Mutant: the canonical label is compared before the formatting is looked at.
ProblemOf_label_first(k, v) ==
    IF k.isNone \/ k.v # v.correct_form_rep_label THEN Some(v.correct_form_rep_label)
    ELSE IF v.correct_formatting = FALSE THEN Some(FormattingMessage)
    ELSE IF v.form_rep_match = FALSE THEN Some(MismatchMessage)
    ELSE None

\* Mutant: the canonical label is never compared.
ProblemOf_no_label_check(k, v) ==
    IF v.correct_formatting = FALSE THEN Some(FormattingMessage)
    ELSE IF v.form_rep_match = FALSE THEN Some(MismatchMessage)
    ELSE None

\* Mutant: a label is reported when its label-match is true.
ProblemOf_match_inverted(k, v) ==
    IF v.correct_formatting = FALSE THEN Some(FormattingMessage)
    ELSE IF k.isNone \/ k.v # v.correct_form_rep_label THEN Some(v.correct_form_rep_label)
    ELSE IF v.form_rep_match = TRUE THEN Some(MismatchMessage)
    ELSE None

\* The if/elif chain of lines 414-430 for one item of the dictionary: the
\* message paired with k, or None. (k != v["correct_formatting"] is False
\* is k != v[...] and v[...] is False, and a label never equals a bool.)
ProblemOf(k, v) ==
    IF v.correct_formatting = FALSE THEN Some(FormattingMessage)
    ELSE IF k.isNone \/ k.v # v.correct_form_rep_label THEN Some(v.correct_form_rep_label)
    ELSE IF v.form_rep_match = FALSE THEN Some(MismatchMessage)
    ELSE None

\* f"{k}" for a key that is a label or None.
KeyStr(k) == IF k.isNone THEN <<"None">> ELSE k.v

\* The lines f"{k} : {message}" of incorrect_query_labels.
incorrect_query_labels(dict) ==
    LET wrong == SelectSeq(dict, LAMBDA item : ~ProblemOf(item.k, item.v).isNone)
    IN  [i \in 1..Len(wrong) |->
            KeyStr(wrong[i].k) \o <<" : ">> \o ProblemOf(wrong[i].k, wrong[i].v).v]

\* error_output += f"\n{index}. {query_file_str}:\n  - {lines}\n"; index += 1.
\* The report is kept as the list of its entries; the lines of an entry are
\* joined by "\n  - " in the text.
AddFinding(report, name, lines) ==
    [error_output |->
         Append(report.error_output, [index |-> report.index, file |-> name, lines |-> lines]),
     index |-> report.index + 1]

\* f"{docstring_check_result}" for the tuple (False, message).
DocstringLine(result) == <<"(False, '">> \o result.msg \o <<"')">>

Completed(report) ==
    [raised |-> "no", error_output |-> report.error_output, index |-> report.index]

Aborted(exception, report) ==
    [raised |-> exception, error_output |-> report.error_output, index |-> report.index]

\* Mutant: the label lines of the files before are kept in the list.
ReportLabels_carried(lines, name, report) ==
    IF lines = <<>> THEN Completed(report)
    ELSE Completed(AddFinding(report, name,
                              Flatten([n \in 1..Len(report.error_output) |->
                                          IF " : " \in Range(report.error_output[n].lines[1])
                                          THEN report.error_output[n].lines ELSE <<>>])
                                  \o lines))

\* Lines 432-442, given the lines of incorrect_query_labels.
ReportLabels(lines, name, report) ==
    IF lines = <<>> THEN Completed(report)
    ELSE Completed(AddFinding(report, name, lines))

\* Lines 411-442, given the dictionary or the exception raised on the way.
ReportDict(dict, name, report) ==
    IF dict.raised # "no" THEN Aborted(dict.raised, report)
    ELSE ReportLabels(incorrect_query_labels(dict.v), name, report)

\* Lines 393-442, given what the second extract_forms_from_sparql returns:
\* the for loop over None raises TypeError.
CheckBlocks(blocks, name, metadata, report) ==
    IF blocks.isNone THEN Aborted("TypeError", report)
    ELSE ReportDict(query_form_check_dict(blocks.v, metadata, <<>>), name, report)

\* Lines 391-442, given what the first extract_forms_from_sparql returns.
CheckLabels(blocks, file, name, metadata, report) ==
    IF blocks.isNone \/ blocks.v = <<>> THEN Completed(report)
    ELSE CheckBlocks(extract_forms_from_sparql(file, 3), name, metadata, report)

\* Lines 387-442, given the string validate_forms returns.
CheckForms(forms_order_and_definition_check, file, name, metadata, report) ==
    CheckLabels(extract_forms_from_sparql(file, 2), file, name, metadata,
                IF forms_order_and_definition_check # <<>>
                THEN AddFinding(report, name, <<forms_order_and_definition_check>>)
                ELSE report)

\* Mutant: a header failure ends the checking of the file.
CheckDocstring_aborts(docstring_check_result, file, name, metadata, report) ==
    IF docstring_check_result.raised THEN {Aborted("IndexError", report)}
    ELSE IF docstring_check_result # ReturnsTrue
    THEN {Completed(AddFinding(report, name, <<DocstringLine(docstring_check_result)>>))}
    ELSE {CheckForms(forms_order_and_definition_check, file, name, metadata, report) :
             forms_order_and_definition_check \in validate_forms(file.text)}

\* Lines 379-442, given what check_docstring returns or raises. validate_forms
\* may return one of several strings.
CheckDocstring(docstring_check_result, file, name, metadata, report) ==
    IF docstring_check_result.raised THEN {Aborted("IndexError", report)}
    ELSE {CheckForms(forms_order_and_definition_check, file, name, metadata,
                     IF docstring_check_result # ReturnsTrue
                     THEN AddFinding(report, name, <<DocstringLine(docstring_check_result)>>)
                     ELSE report) :
             forms_order_and_definition_check \in validate_forms(file.text)}

\* One iteration of the loop of check_query_forms over the file called name:
\* the values of error_output and index after it, or the exception that
\* leaves the function.
ScanFileRuns(file, name, metadata, report) ==
    IF file.reads < 1 THEN {Aborted("OSError", report)}
    ELSE CheckDocstring(check_docstring(file.text), file, name, metadata, report)

-----------------------------------------------------------------------------
(* Specification of one run of check_query_forms *)

\* Most form blocks of the file of a one-file directory.
MaxBlocks == 2

\* Most files of a directory of several files.
MaxFiles == 2

HeaderOk == Line1Ok \o Line2Ok \o Line3Ok

HeaderBadLine2 == Line1Ok \o Line2NoDigits \o Line3Ok

\* The form variable a block binds for validate_forms, if any.
BoundBy(block) ==
    IF block \in {BlockNoSigil, BlockNoLexicalForm} THEN <<>>
    ELSE IF block = BlockGenPl THEN <<GenPl>>
    ELSE IF block = BlockWrongLabel THEN <<NomPl>>
    ELSE <<NomSg>>

\* The text of a query file: the header, a SELECT clause that returns the
\* lexeme, its identifier and the selected variables, and a WHERE clause
\* with one OPTIONAL block for each block text.
FileText(header, selected, blocks) ==
    header \o <<"SELECT", "\n">> \o SelectLines(<<lexeme, lexemeID>> \o selected)
        \o <<"\n", "WHERE", " ", "{", "\n", " ", " ", "?">> \o lexeme
        \o <<" ", "dct:language", " ", "wd:Q1860">> \o LemmaLines(None)
        \o Flatten([i \in 1..Len(blocks) |->
                       <<"\n", " ", " ", "OPTIONAL", " ", "{">> \o blocks[i] \o <<"}", "\n">>])
        \o <<"}", "\n">>

\* A file that selects what its blocks bind, in their order.
FileOf(header, blocks) ==
    FileText(header, Flatten([i \in 1..Len(blocks) |-> BoundBy(blocks[i])]), blocks)

ReadsOfARun == 3

QueryFile(text, reads) == [text |-> text, reads |-> reads]

\* The files of the directories of several files.
DirectoryFiles ==
    {QueryFile(FileOf(HeaderOk, <<BlockNomSg>>), ReadsOfARun),
     QueryFile(FileOf(HeaderBadLine2, <<BlockNomSg>>), ReadsOfARun),
     QueryFile(FileOf(HeaderOk, <<BlockWrongLabel>>), ReadsOfARun),
     QueryFile(FileText(HeaderOk, <<GenPl>>, <<BlockNomSg>>), ReadsOfARun),
     QueryFile(FileOf(HeaderOk, <<BlockNoPrefix>>), ReadsOfARun),
     QueryFile(FileOf(HeaderBadLine2, <<BlockMissingCode>>), ReadsOfARun),
     QueryFile(<<>>, ReadsOfARun),
     QueryFile(FileOf(HeaderOk, <<BlockWrongLabel>>), 0),
     QueryFile(FileOf(HeaderBadLine2, <<BlockWrongLabel>>), 1),
     QueryFile(FileOf(HeaderOk, <<BlockWrongLabel>>), 2)}

InitCheckQueryForms ==
    /\ NoCli
    /\ NoTranslation
    /\ lexeme_form_metadata = VocabularyCaseNumber
    /\ qids = None
    /\ correct_label = <<>>
    /\ query_text = <<>>
    /\ docstring_result = NotCalled
    /\ forms_result = <<"not called">>
    /\ forms_locals = NoLocals
    /\ form_text = <<>>
    /\ form_checks = NoChecks
    /\ \/ \E header \in {HeaderOk, HeaderBadLine2}, blocks \in SeqsUpTo(BlockTexts, MaxBlocks) :
              query_files = <<QueryFile(FileOf(header, blocks), ReadsOfARun)>>
       \/ query_files \in SeqsUpTo(DirectoryFiles, MaxFiles)
    /\ scanned = 0
    /\ error_output = <<>>
    /\ index = 0
    /\ exit_status = None
    /\ pc = "scanning"

\* One iteration of the loop over the files. An exception that leaves
\* check_query_forms ends the process with status 1 and nothing is printed
\* but the traceback.
ScanFile ==
    /\ UNCHANGED <<cliVars, translationVars>>
    /\ pc = "scanning"
    /\ scanned < Len(query_files)
    /\ \E run \in ScanFileRuns(query_files[scanned + 1], scanned + 1, lexeme_form_metadata,
                               [error_output |-> error_output, index |-> index]) :
           /\ error_output' = run.error_output
           /\ index' = run.index
           /\ scanned' = IF run.raised = "no" THEN scanned + 1 ELSE scanned
           /\ pc' = IF run.raised = "no" THEN "scanning" ELSE "raised"
           /\ exit_status' = IF run.raised = "no" THEN None ELSE Some(1)
    /\ UNCHANGED <<lexeme_form_metadata, qids, correct_label, query_text,
                   docstring_result, forms_result, forms_locals, form_text,
                   form_checks, query_files>>

\* Lines 444-453: after the loop the report is printed and exit(1) is called
\* if it is not empty; otherwise the function returns and the status is 0.
Exit ==
    /\ UNCHANGED <<cliVars, translationVars>>
    /\ pc = "scanning"
    /\ scanned = Len(query_files)
    /\ pc' = "exited"
    /\ exit_status' = IF error_output # <<>> THEN Some(1) ELSE Some(0)
    /\ UNCHANGED <<lexeme_form_metadata, qids, correct_label, query_text,
                   docstring_result, forms_result, forms_locals, form_text,
                   form_checks, query_files, scanned, error_output, index>>

NextCheckQueryForms == ScanFile \/ Exit

SpecCheckQueryForms == InitCheckQueryForms /\ [][NextCheckQueryForms]_vars

-----------------------------------------------------------------------------
(* Claims about check_query_forms.  The run has ended when the function has  *)
(* exited or an exception has left it.                                       *)

Ended == pc \in {"exited", "raised"}

\* The entries of the report that are about the i-th file.
FindingsOf(i) == SelectSeq(error_output, LAMBDA f : f.file = i)

\* C14: the exit status is decided after every file has been scanned, and it
\* is 1 exactly when a finding was appended to the report and 0 exactly when
\* none was.
C14_ExitStatusAfterFullScan ==
    Ended
    => /\ scanned = Len(query_files)
       /\ exit_status = Some(1) <=> error_output # <<>>
       /\ exit_status = Some(0) <=> error_output = <<>>

\* The directory holds one file, all of whose reads succeed.
OneReadableFile == Len(query_files) = 1 /\ query_files[1].reads = ReadsOfARun

\* The file has a correct header, its variables are ordered, defined and
\* unique, and it has one form block, whose feature codes are read.
OneBlockOfAValidQuery(text) ==
    /\ check_docstring(text) = ReturnsTrue
    /\ validate_forms(text) = {<<>>}
    /\ Len(OptionalFindAll(text, 1)) = 1
    /\ extract_form_qids(OptionalFindAll(text, 1)[1]).raised = "no"

\* The representation label of the block is the label its codes resolve to.
HasCanonicalLabel(block, metadata) ==
    /\ ~extract_form_rep_label(block).isNone
    /\ extract_form_rep_label(block).v
           = return_correct_form_label(extract_form_qids(block).v, metadata)

KeepsConvention(block) ==
    \A n \in 2..Len(block) :
        /\ block[n] = "," => block[n - 1] \notin {" ", "\t", "\n", "\r"}
        /\ block[n] \in {".", ";"} => block[n - 1] \in {" ", "\t", "\n", "\r"}

\* The lexicalForm statement binds ?<label>Form and the representation
\* statement reads "?<label>Form ontolex:representation ?<label> ;".
FormVariableCarriesLabel(block) ==
    \E label \in {NomSg, GenPl, NomPl} :
        /\ Find(block, <<"ontolex:lexicalForm", " ", "?">> \o label \o FormSuffix \o <<" ", ".">>, 1) # 0
        /\ Find(block, <<"?">> \o label \o FormSuffix
                          \o <<" ", "ontolex:representation", " ", "?">> \o label \o <<" ", ";">>, 1) # 0

C17_ScanNeverStopsEarly ==
    Ended
    => /\ scanned = Len(query_files)
       /\ \A i \in 1..Len(query_files) :
              (\E run \in ScanFileRuns(query_files[i], i, lexeme_form_metadata,
                                       [error_output |-> <<>>, index |-> 0]) :
                   run.error_output # <<>>)
              => FindingsOf(i) # <<>>

\* C18: a file whose read fails does not abort the run: the scan goes on
\* with the next file, and a file that cannot be read at all has no entry in
\* the report.
C18_UnreadableFileIsSkipped ==
    \A i \in 1..Len(query_files) :
        query_files[i].reads < ReadsOfARun
        => /\ ~(pc = "raised" /\ scanned + 1 = i)
           /\ (query_files[i].reads = 0 /\ scanned >= i) => FindingsOf(i) = <<>>

\* The lines of the report about the labels of the i-th file: the lines of
\* its entries that pair a label with a message.
LabelLines(i) ==
    LET entries == SelectSeq(FindingsOf(i), LAMBDA f : " : " \in Range(f.lines[1]))
    IN  Flatten([n \in 1..Len(entries) |-> entries[n].lines])

\* The problem the priority order gives for one collected label.
FirstProblem(item) ==
    CASE ~item.v.correct_formatting -> FormattingMessage
      [] item.v.correct_formatting /\ KeyStr(item.k) # item.v.correct_form_rep_label
             -> item.v.correct_form_rep_label
      [] item.v.correct_formatting /\ KeyStr(item.k) = item.v.correct_form_rep_label
            /\ ~item.v.form_rep_match
             -> MismatchMessage
      [] OTHER -> <<>>

\* C20: for each label collected for a scanned file the report has at most
\* one line, that of the first applicable problem in the order formatting,
\* canonical label, label match; a label without a problem has no line.
C20_OneProblemPerLabel ==
    \A i \in 1..scanned :
        query_files[i].reads = ReadsOfARun
        => LET items == query_form_check_dict(OptionalFindAll(query_files[i].text, 1),
                                              lexeme_form_metadata, <<>>).v
               lines == LabelLines(i)
               LinesOf(item) ==
                   {m \in 1..Len(lines) : StartsWith(lines[m], KeyStr(item.k) \o <<" : ">>)}
           IN  /\ \A n \in 1..Len(items) :
                      IF FirstProblem(items[n]) = <<>>
                      THEN LinesOf(items[n]) = {}
                      ELSE /\ Cardinality(LinesOf(items[n])) = 1
                           /\ \A m \in LinesOf(items[n]) :
                                  lines[m] = KeyStr(items[n].k) \o <<" : ">>
                                                 \o FirstProblem(items[n])
               /\ Len(lines) = Cardinality({n \in 1..Len(items) : FirstProblem(items[n]) # <<>>})

\* A badly formatted block whose codes do not resolve either, and a block
\* with the label of other codes: one line each, the formatting first.
C20_Witness ==
    /\ pc = "exited"
    /\ query_files = <<QueryFile(FileOf(HeaderOk, <<BlockSpaceComma, BlockWrongLabel>>),
                                 ReadsOfARun)>>
    /\ error_output =
           <<[index |-> 0, file |-> 1,
              lines |-> <<NomSg \o <<" : ">> \o FormattingMessage,
                          NomPl \o <<" : ">> \o NomSg>>]>>

\* The lines of the entries of the report about the i-th file, in order.
EntryLines(i) == [n \in 1..Len(FindingsOf(i)) |-> FindingsOf(i)[n].lines]

\* The label lines the blocks of a text yield.
LabelLinesOf(text, metadata) ==
    incorrect_query_labels(query_form_check_dict(OptionalFindAll(text, 1), metadata, <<>>).v)

\* C21: a header failure does not abort the checking of the file: a scanned
\* file whose header check fails has the header entry first, then the entry
\* of validate_forms if it returned a message, then the entry of the label
\* lines if there are any, numbered consecutively.
C21_HeaderFailureDoesNotAbort ==
    \A i \in 1..scanned :
        (/\ query_files[i].reads = ReadsOfARun
         /\ ~check_docstring(query_files[i].text).raised
         /\ check_docstring(query_files[i].text) # ReturnsTrue)
        => /\ \E message \in validate_forms(query_files[i].text) :
                  EntryLines(i) =
                      << <<DocstringLine(check_docstring(query_files[i].text))>> >>
                          \o (IF message # <<>> THEN << <<message>> >> ELSE <<>>)
                          \o (IF LabelLinesOf(query_files[i].text, lexeme_form_metadata) # <<>>
                              THEN <<LabelLinesOf(query_files[i].text, lexeme_form_metadata)>>
                              ELSE <<>>)
           /\ \A n \in 2..Len(FindingsOf(i)) :
                  FindingsOf(i)[n].index = FindingsOf(i)[n - 1].index + 1

\* One file with a header failure, a variable returned twice and a block
\* with the label of other codes: three entries, in that order.
C21_Witness ==
    /\ pc = "exited"
    /\ query_files = <<QueryFile(FileOf(HeaderBadLine2, <<BlockWrongLabel, BlockWrongLabel>>),
                                 ReadsOfARun)>>
    /\ Len(error_output) = 3
    /\ error_output[1].lines[1][1] = "(False, '"
    /\ error_output[2].lines[1][1] = DuplicateForms
    /\ error_output[3].lines = <<NomPl \o <<" : ">> \o NomSg>>
    /\ [n \in 1..3 |-> error_output[n].index] = <<0, 1, 2>>

\* The lines of the entries a file yields when it is the only file scanned.
LinesAlone(file) ==
    {[n \in 1..Len(run.error_output) |-> run.error_output[n].lines] :
        run \in {r \in ScanFileRuns(file, 1, lexeme_form_metadata,
                                    [error_output |-> <<>>, index |-> 0]) : r.raised = "no"}}

\* C22: no step of a run changes the vocabulary (and so its flattened code
\* order), and the lines of the entries of a scanned file are lines the file
\* yields when it is scanned alone, whatever files were scanned before it.
C22_FilesAreCheckedIndependently ==
    /\ [](\A i \in 1..scanned : EntryLines(i) \in LinesAlone(query_files[i]))
    /\ [][/\ lexeme_form_metadata' = lexeme_form_metadata
          /\ lexeme_form_qid_order(lexeme_form_metadata')
                 = lexeme_form_qid_order(lexeme_form_metadata)]_vars

\* Two files with a label line each: the entries of the second are those it
\* has alone, with the numbers that follow the entry of the first.
C22_Witness ==
    /\ pc = "exited"
    /\ query_files = <<QueryFile(FileOf(HeaderOk, <<BlockWrongLabel>>), ReadsOfARun),
                       QueryFile(FileOf(HeaderBadLine2, <<BlockMissingCode>>), ReadsOfARun)>>
    /\ Len(error_output) = 3
    /\ error_output[1].lines = <<NomPl \o <<" : ">> \o NomSg>>
    /\ error_output[3] =
           [index |-> 2, file |-> 2,
            lines |-> << NomSg \o <<" : ", "QID", " ", "Q", "3",
                                   " not included in lexeme_form.metadata.json">> >>]

-----------------------------------------------------------------------------
(* scribe_data.cli: get_total_lexemes (src/src/scribe_data/cli/total.py).  *)
(* The query service is the environment: responses lists what               *)
(* sparql.query().convert() gives for the successive queries of the call,   *)
(* an exception or a converted result.                                      *)

\* str.lower()
lower(s) == [n \in 1..Len(s) |-> Lower(s[n])]

\* s.startswith("Q") and s[1:].isdigit()
IsQid(s) == Len(s) >= 2 /\ s[1] = "Q" /\ \A n \in 2..Len(s) : IsDigit(s[n])

English == <<"E", "n", "g", "l", "i", "s", "h">>

Martian == <<"M", "a", "r", "s">>

nouns == <<"n", "o", "u", "n", "s">>

\* The table of the languages' QIDs, built from language_metadata.json.
language_to_qid == lower(English) :> <<"Q", "1", "8", "6", "0">>

\* data_type_metadata.json
data_type_metadata == nouns :> <<"Q", "1", "0", "8", "4">>

get_qid_by_input(input_str) ==
    IF input_str.isNone \/ input_str.v = <<>> THEN None
    ELSE IF lower(input_str.v) \in DOMAIN language_to_qid
    THEN Some(language_to_qid[lower(input_str.v)])
    ELSE IF lower(input_str.v) \in DOMAIN data_type_metadata
    THEN Some(data_type_metadata[lower(input_str.v)])
    ELSE None

\* language_qid and data_type_qid, lines 248-258.
qid_of(input) ==
    IF ~input.isNone /\ IsQid(input.v) THEN input ELSE get_qid_by_input(input)

\* max_retries = 2
max_retries == 2

\* int(s) of a str of digits.
RECURSIVE int(_)
int(s) ==
    IF s = <<>> THEN 0 ELSE 10 * int(SubSeq(s, 1, Len(s) - 1)) + (Ord(s[Len(s)]) - 1)

\* f"{n}" of an int that is not negative.
RECURSIVE IntStr(_)
IntStr(n) ==
    IF n < 10 THEN <<Alphabet[n + 1]>> ELSE IntStr(n \div 10) \o <<Alphabet[(n % 10) + 1]>>

\* A converted result: "results" may be missing, and "bindings" in it; a
\* binding is the str of its ["total"]["value"].
Result(bindings) == [raised |-> "no", results |-> Some(Some(bindings))]

ResultNoBindingsKey == [raised |-> "no", results |-> Some(None)]

ResultNoResultsKey == [raised |-> "no", results |-> None]

\* A query that raises the exception.
Fails(exception) == [raised |-> exception, results |-> None]

\* The exceptions of a query that the loop catches.
CaughtErrors == {"HTTPError", "IncompleteRead"}

\* print(f"HTTPError occurred: {http_err}") and its like.
ErrorOccurred(error) ==
    IF error = "HTTPError" THEN <<"HTTPError occurred: ", error>>
    ELSE <<"Incomplete read error occurred: ", error>>

WillBeRetried == <<"The query will be retried...">>

FailedAfterRetries == <<"Query failed after retries.">>

NotFound == <<"Total number of lexemes: Not found">>

\* Mutant: the lines of the language and of the data type are always there.
output_template_all_lines(lang, dt, total_lexemes) ==
    <<"\n", "Language: ">> \o lang.v \o <<"\n">>
        \o <<"Data type: ">> \o dt.v \o <<"\n">>
        \o <<"Total number of lexemes: ">> \o IntStr(total_lexemes) \o <<"\n">>

\* output_template, lines 324-331.
output_template(lang, dt, total_lexemes) ==
    (IF ~lang.isNone /\ lang.v # <<>>
     THEN <<"\n", "Language: ">> \o lang.v \o <<"\n">> ELSE <<>>)
    \o (IF ~dt.isNone /\ dt.v # <<>>
        THEN <<"Data type: ">> \o dt.v \o <<"\n">> ELSE <<>>)
    \o <<"Total number of lexemes: ">> \o IntStr(total_lexemes) \o <<"\n">>

\* The messages of one pass of the loop after the try statement, lines 307-314,
\* with try_count already incremented.
RetryMessages(count, result) ==
    IF ~result.isNone THEN <<>>
    ELSE IF count <= max_retries THEN <<WillBeRetried>>
    ELSE <<FailedAfterRetries>>

\* One pass of the while loop, lines 297-314. An exception that is not
\* caught leaves the function.
QueryOnce ==
    /\ pc = "query"
    /\ try_count <= max_retries /\ results.isNone
    /\ LET response == responses[try_count + 1]
       IN  IF response.raised \in CaughtErrors
           THEN /\ results' = results
                /\ try_count' = try_count + 1
                /\ printed' = printed \o <<ErrorOccurred(response.raised)>>
                                  \o RetryMessages(try_count + 1, results)
                /\ UNCHANGED <<pc, returned>>
           ELSE IF response.raised # "no"
           THEN /\ pc' = "raised"
                /\ returned' = Raises(response.raised)
                /\ UNCHANGED <<results, try_count, printed>>
           ELSE /\ results' = Some(response)
                /\ try_count' = try_count + 1
                /\ printed' = printed \o RetryMessages(try_count + 1, Some(response))
                /\ UNCHANGED <<pc, returned>>
    /\ UNCHANGED <<lexeme_form_metadata, qids, correct_label, query_text,
                   docstring_result, forms_result, forms_locals, form_text,
                   form_checks, query_files, scanned, error_output, index,
                   exit_status, language, data_type, doPrint, responses,
                   translationVars>>

\* Lines 316-339, after the loop: "results" in results raises TypeError when
\* results is None.
ReportTotal ==
    /\ pc = "query"
    /\ ~(try_count <= max_retries /\ results.isNone)
    /\ IF results.isNone
       THEN /\ pc' = "raised"
            /\ returned' = Raises("TypeError")
            /\ printed' = printed
       ELSE IF /\ ~results.v.results.isNone
               /\ ~results.v.results.v.isNone
               /\ Len(results.v.results.v.v) > 0
       THEN /\ pc' = "returned"
            /\ returned' = Returns(Some(int(results.v.results.v.v[1])))
            /\ printed' = IF doPrint
                          THEN printed \o <<output_template(language, data_type,
                                                            int(results.v.results.v.v[1]))>>
                          ELSE printed
       ELSE /\ pc' = "returned"
            /\ returned' = Returns(None)
            /\ printed' = printed \o <<NotFound>>
    /\ UNCHANGED <<lexeme_form_metadata, qids, correct_label, query_text,
                   docstring_result, forms_result, forms_locals, form_text,
                   form_checks, query_files, scanned, error_output, index,
                   exit_status, language, data_type, doPrint, responses,
                   try_count, results, translationVars>>

-----------------------------------------------------------------------------
(* Specification of one call of get_total_lexemes *)

\* The str arguments of the calls: a known name in either case, a QID, an
\* unknown name, the name of a data type, the empty str.
NameArguments ==
    {English, lower(English), <<"Q", "4", "2">>, Martian, nouns, <<>>}

\* What the service may answer to one query.
Responses ==
    {Fails(exception) : exception \in CaughtErrors \cup {"URLError"}}
        \cup {Result(<<>>), Result(<< <<"4", "2">> >>), Result(<< <<"0", "7">>, <<"1">> >>),
              ResultNoBindingsKey, ResultNoResultsKey}

InitTotal ==
    /\ lexeme_form_metadata = VocabularyCaseNumber
    /\ qids = None
    /\ correct_label = <<>>
    /\ query_text = <<>>
    /\ docstring_result = NotCalled
    /\ forms_result = <<"not called">>
    /\ forms_locals = NoLocals
    /\ form_text = <<>>
    /\ form_checks = NoChecks
    /\ NoRun
    /\ NoTranslation
    /\ language \in {None} \cup {Some(name) : name \in NameArguments \ {nouns}}
    /\ data_type \in {None, Some(nouns), Some(<<>>)}
    /\ doPrint \in BOOLEAN
    /\ responses \in [1..(max_retries + 1) -> Responses]
    /\ try_count = 0
    /\ results = None
    /\ printed = <<>>
    /\ returned = NoChecks
    /\ pc = "query"

NextTotal == QueryOnce \/ ReportTotal

SpecTotal == InitTotal /\ [][NextTotal]_vars

\* The statements of the function run one after the other until it returns
\* or raises.
SpecTotalFair == SpecTotal /\ WF_vars(NextTotal)

-----------------------------------------------------------------------------
(* Claims about get_total_lexemes *)

\* The query of the call succeeded: a converted result was obtained.
QuerySucceeded == ~results.isNone

\* The bindings of the converted result, none if a key is missing.
Bindings ==
    IF results.v.results.isNone \/ results.v.results.v.isNone THEN <<>>
    ELSE results.v.results.v.v

\* What the failed attempts before the successful one printed: the error
\* and the notice of the retry, for each.
NoticesOfFailedAttempts ==
    Flatten([n \in 1..(try_count - 1) |->
                << <<IF responses[n].raised = "HTTPError"
                     THEN "HTTPError occurred: " ELSE "Incomplete read error occurred: ",
                     responses[n].raised>>,
                   <<"The query will be retried...">> >>])

\* The block of the total N for the arguments of the call.
TotalBlock(N) ==
    (IF language \in {None, Some(<<>>)} THEN <<>>
     ELSE <<"\n", "Language: ">> \o language.v \o <<"\n">>)
    \o (IF data_type \in {None, Some(<<>>)} THEN <<>>
        ELSE <<"Data type: ">> \o data_type.v \o <<"\n">>)
    \o <<"Total number of lexemes: ">> \o IntStr(N) \o <<"\n">>

\* The statement of C23 as it is given: a call whose query succeeded has
\* printed exactly one message, the block of the total of the first binding
\* (and it returned that total) or 'Total number of lexemes: Not found' when
\* there is no binding (and it returned None).
C23_ExactlyOneMessage ==
    (pc = "returned" /\ QuerySucceeded)
    => /\ Len(printed) = 1
       /\ IF Bindings # <<>>
          THEN /\ printed[1] = TotalBlock(int(Bindings[1]))
               /\ returned = Returns(Some(int(Bindings[1])))
          ELSE /\ printed[1] = <<"Total number of lexemes: Not found">>
               /\ returned = Returns(None)

\* C23: after the notices of the attempts that failed, a call whose query
\* succeeded prints one result message when doPrint is true: the block of
\* the total N of the first binding, with the Language and Data type lines
\* of the arguments that are given, and it returns N; when doPrint is false
\* it returns N and prints no block. When the result has no binding it
\* prints 'Total number of lexemes: Not found' and returns None, whatever
\* doPrint is and whether or not the arguments resolve to a QID.
C23_OneResultMessage ==
    (pc = "returned" /\ QuerySucceeded)
    => IF Bindings # <<>>
       THEN /\ printed = NoticesOfFailedAttempts
                             \o (IF doPrint THEN <<TotalBlock(int(Bindings[1]))>> ELSE <<>>)
            /\ returned = Returns(Some(int(Bindings[1])))
       ELSE /\ printed = NoticesOfFailedAttempts
                             \o << <<"Total number of lexemes: Not found">> >>
            /\ returned = Returns(None)

\* A language without a QID, a first attempt that fails and a result whose
\* first binding is "07": the two notices, then the block of the total 7.
C23_Witness ==
    /\ pc = "returned"
    /\ language = Some(Martian) /\ qid_of(language) = None
    /\ data_type = Some(nouns)
    /\ doPrint
    /\ responses[1] = Fails("HTTPError")
    /\ results = Some(Result(<< <<"0", "7">>, <<"1">> >>))
    /\ Len(printed) = 3
    /\ printed[3] = <<"\n", "Language: ", "M", "a", "r", "s", "\n",
                      "Data type: ", "n", "o", "u", "n", "s", "\n",
                      "Total number of lexemes: ", "7", "\n">>
    /\ returned = Returns(Some(7))

\* The call of get_total_lexemes has ended.
TotalEnded == pc \in {"returned", "raised"}

\* How many times the message was printed.
TimesPrinted(message) == Cardinality({n \in 1..Len(printed) : printed[n] = message})

\* The attempts made so far that raised an exception the loop catches.
FailedAttempts == {n \in 1..try_count : responses[n].raised \in CaughtErrors}

\* The retry loop as C29 describes it, for the exceptions the loop catches:
\* at most max_retries + 1 queries, none after the first that succeeds, and
\* 'The query will be retried...' once for each failure but the last of
\* max_retries + 1.
RetryLoopIsBounded ==
    /\ try_count <= max_retries + 1
    /\ ~results.isNone
       => /\ results.v = responses[try_count]
          /\ FailedAttempts = 1..(try_count - 1)
    /\ TimesPrinted(<<"The query will be retried...">>)
           = Cardinality(FailedAttempts \ {max_retries + 1})
    /\ TimesPrinted(<<"Query failed after retries.">>)
           = Cardinality(FailedAttempts \cap {max_retries + 1})

\* The part of C29 that holds: the loop is bounded as described and the
\* call always ends.
C29_RetryLoopTerminates == []RetryLoopIsBounded /\ <>TotalEnded

\* C29: the retry loop always terminates after at most 3 queries, stopping
\* at the first success; and when all 3 attempts raise HTTPError or
\* IncompleteRead, 'Query failed after retries.' is printed once and the call
\* ends by returning None after 'Total number of lexemes: Not found', and
\* does not raise.
C29_AllAttemptsFailedReturnsNone ==
    /\ [](/\ RetryLoopIsBounded
          /\ (TotalEnded /\ FailedAttempts = 1..(max_retries + 1))
             => /\ TimesPrinted(<<"Query failed after retries.">>) = 1
                /\ returned = Returns(None)
                /\ printed[Len(printed)] = <<"Total number of lexemes: Not found">>)
    /\ <>TotalEnded

-----------------------------------------------------------------------------
(* scribe_data.cli: validate_language_and_data_type                         *)
(* (src/src/scribe_data/cli/cli_utils.py).  An argument is a record          *)
(* [type, v]: the name of its Python type and, for a str, its characters,    *)
(* for a list, its items.                                                    *)

PyNone == [type |-> "NoneType", v |-> <<>>]

PyBool == [type |-> "bool", v |-> <<>>]

PyInt == [type |-> "int", v |-> <<>>]

Str(s) == [type |-> "str", v |-> s]

List(items) == [type |-> "list", v |-> items]

\* str.isdigit()
isdigit(s) == s # <<>> /\ \A n \in 1..Len(s) : IsDigit(s[n])

\* closest_match_str: difflib.get_close_matches(item, valid_options, n=1)
\* gives a valid option that is similar enough to the item, or nothing.
closest_match_strs(valid_options, item_type) ==
    {<<>>} \cup {<<" The closest matching ", item_type, " is '">> \o option \o <<"'.">> :
                    option \in valid_options}

\* validate_single_item: the error messages it may return for the item,
\* or None.
validate_single_item(item, valid_options, item_type) ==
    IF /\ item.type = "str"
       /\ strip(lower(item.v)) \notin valid_options
       /\ ~StartsWith(item.v, <<"Q">>)
       /\ ~isdigit(DropFirst(item.v, 1))
    THEN {Some(<<"Invalid ", item_type, " '">> \o item.v \o <<"'.">> \o closest_match_str) :
             closest_match_str \in closest_match_strs(valid_options, item_type)}
    ELSE {None}

\* The loop over the items of a list: the lists of errors it may append.
RECURSIVE ErrorsOfItems(_, _, _)
ErrorsOfItems(items, valid_options, item_type) ==
    IF items = <<>> THEN {<<>>}
    ELSE {(IF error.isNone THEN <<>> ELSE <<error.v>>) \o rest :
             error \in validate_single_item(Head(items), valid_options, item_type),
             rest \in ErrorsOfItems(Tail(items), valid_options, item_type)}

\* Lines 245-257 for the languages and 259-272 for the data types.
ErrorsOfArgument(argument, valid_options, item_type, must_be) ==
    IF argument.type \in {"NoneType", "bool"} THEN {<<>>}
    ELSE IF argument.type = "str" THEN ErrorsOfItems(<<argument>>, valid_options, item_type)
    ELSE IF argument.type = "list" THEN ErrorsOfItems(argument.v, valid_options, item_type)
    ELSE {<<must_be>>}

ReturnsTrueValue == Returns(<<"True">>)

\* raise ValueError("\n".join(errors))
RaisesValueError(errors) == [raised |-> "ValueError", v |-> Join(errors, <<"\n">>)]

\* The outcomes validate_language_and_data_type may have.
validate_language_and_data_type(lang, dt) ==
    {IF language_errors \o data_type_errors # <<>>
     THEN RaisesValueError(language_errors \o data_type_errors)
     ELSE ReturnsTrueValue :
        language_errors \in
            ErrorsOfArgument(lang, DOMAIN language_to_qid, "language",
                             <<"Language must be a string or a list of strings.">>),
        data_type_errors \in
            ErrorsOfArgument(dt, DOMAIN data_type_metadata, "data-type",
                             <<"Data type must be a string or a list of strings.">>)}

-----------------------------------------------------------------------------
(* Specification of one call of validate_language_and_data_type *)

\* Most items of a list argument.
MaxItems == 2

\* The str items of the languages: a known name, the same with blanks and
\* capitals, a QID, an unknown name, two names that are neither known nor
\* QIDs, and the empty str.
LanguageItems ==
    {Str(name) : name \in {lower(English), <<" ">> \o English \o <<" ">>, <<"Q", "4", "2">>,
                           Martian, <<"Q", "a">>, <<"x", "1">>, <<>>}}

DataTypeItems == {Str(name) : name \in {nouns, <<"Q", "4", "2">>, Martian}}

InitValidate ==
    /\ lexeme_form_metadata = VocabularyCaseNumber
    /\ qids = None
    /\ correct_label = <<>>
    /\ query_text = <<>>
    /\ docstring_result = NotCalled
    /\ forms_result = <<"not called">>
    /\ forms_locals = NoLocals
    /\ form_text = <<>>
    /\ form_checks = NoChecks
    /\ NoRun
    /\ NoTranslation
    /\ \/ language \in {PyNone, PyBool, PyInt}
       \/ language \in LanguageItems
       \/ language \in {List(items) : items \in SeqsUpTo(LanguageItems, MaxItems)}
       \/ language = List(<<PyInt>>)
    /\ \/ data_type \in {PyNone, PyBool, PyInt}
       \/ data_type \in DataTypeItems
       \/ data_type \in {List(items) : items \in SeqsUpTo(DataTypeItems, MaxItems)}
    /\ doPrint = TRUE
    /\ responses = <<>>
    /\ try_count = 0
    /\ results = None
    /\ printed = <<>>
    /\ returned = NoChecks
    /\ pc = "call"

CallValidate ==
    /\ pc = "call"
    /\ returned' \in validate_language_and_data_type(language, data_type)
    /\ pc' = IF returned'.raised = "no" THEN "returned" ELSE "raised"
    /\ UNCHANGED <<lexeme_form_metadata, qids, correct_label, query_text,
                   docstring_result, forms_result, forms_locals, form_text,
                   form_checks, query_files, scanned, error_output, index,
                   exit_status, language, data_type, doPrint, responses,
                   try_count, results, printed, translationVars>>

NextValidate == CallValidate

SpecValidate == InitValidate /\ [][NextValidate]_vars

-----------------------------------------------------------------------------
(* Claims about validate_language_and_data_type *)

\* The items given by an argument: the str itself, or the items of the list.
GivenItems(argument) ==
    IF argument.type = "str" THEN <<argument>>
    ELSE IF argument.type = "list" THEN argument.v
    ELSE <<>>

\* The item is valid: a known option, or 'Q' followed by digits.
IsValidItem(item, valid_options) ==
    /\ item.type = "str"
    /\ \/ strip(lower(item.v)) \in valid_options
       \/ IsQid(item.v)

\* The items of the two arguments that are not valid.
InvalidItems ==
    SelectSeq(GivenItems(language), LAMBDA item : ~IsValidItem(item, DOMAIN language_to_qid))
        \o SelectSeq(GivenItems(data_type),
                     LAMBDA item : ~IsValidItem(item, DOMAIN data_type_metadata))

\* C24: validate_language_and_data_type raises ValueError if one of the given
\* languages or data types is invalid (neither a known option nor 'Q' followed
\* by digits), with one message for each invalid item in the one error, and
\* it returns True only when every given item is valid.
C24_InvalidItemsRaiseValueError ==
    (pc \in {"returned", "raised"} /\ language.type \in {"str", "list"}
                                   /\ data_type.type \in {"str", "list"})
    => IF InvalidItems = <<>> THEN returned = ReturnsTrueValue
       ELSE /\ returned.raised = "ValueError"
            /\ Len(split(returned.v, <<"\n">>)) = Len(InvalidItems)

-----------------------------------------------------------------------------
(* Further claims about the per-block functions *)

\* The names of the variables of the blocks of the model.
BlockLabels == {NomSg, GenPl, NomPl}

\* The block has the statement "?lexeme ontolex:lexicalForm ?F ."
BindsForm(block, F) ==
    Find(block, <<"?">> \o lexeme \o <<" ", "ontolex:lexicalForm", " ", "?">> \o F \o <<" ", ".">>, 1) # 0

\* The block has a representation statement of ?F that binds ?V.
BindsRepresentation(block, F, V) ==
    Find(block, <<"?">> \o F \o <<" ", "ontolex:representation", " ", "?">> \o V \o <<" ", ";">>, 1) # 0

\* C25: check_form_label returns true if the block has a lexicalForm
\* statement binding a form variable F and a representation statement of F
\* whose variable is F without its suffix 'Form', and it returns false in
\* every other case: when a statement is absent or the names differ.
C25_FormLabelMatchIffStatementsAgree ==
    pc = "returned"
    => /\ check_form_label(form_text).raised = "no"
       /\ check_form_label(form_text).v
              <=> \E V \in BlockLabels :
                      /\ BindsForm(form_text, V \o FormSuffix)
                      /\ BindsRepresentation(form_text, V \o FormSuffix, V)

-----------------------------------------------------------------------------
(* Further claims about validate_forms *)

\* The variables the lemma statements bind, as dt_pattern finds them.
LemmaStatements == DtFindAll(query_text, 1)

\* No labeling-service variable is selected, so that none is inserted into
\* the pattern list.
NoLabelServiceVarSelected ==
    \A n \in 1..Len(forms_locals.select_vars) :
        forms_locals.select_vars[n] \notin Range(LabelServiceVars)

\* C26: when a lemma statement of the pattern clause binds ?lemma, the pattern
\* list starts with 'preposition' instead of 'lemma', and when it binds any
\* other variable X the list starts with X, however many lemma statements
\* are matched.
C26_LemmaBecomesPreposition ==
    (FormsReturned /\ NoLabelServiceVarSelected /\ LemmaStatements # <<>>)
    => /\ forms_locals.where_vars # <<>>
       /\ forms_locals.where_vars[1] =
              IF LemmaStatements[1] = lemma THEN preposition ELSE LemmaStatements[1]

\* The selection list without the labeling-service variables.
NonSpecialSelected ==
    SelectSeq(forms_locals.select_vars, LAMBDA v : v \notin Range(LabelServiceVars))

\* C27: the alignment of the labeling-service variables does not depend on
\* their position: for a selection list without duplicates whose other
\* variables are the naturally derived pattern variables in the same order,
\* validate_forms returns the empty string wherever and in whatever order
\* case, gender and auxiliaryVerb are selected.
C27_SpecialVariablesAlignAnywhere ==
    (/\ FormsReturned
     /\ ~HasDuplicate(forms_locals.select_vars)
     /\ NonSpecialSelected = natural_where_vars(query_text))
    => forms_result = <<>>

-----------------------------------------------------------------------------
(* Further claims about check_query_forms *)

\* The form blocks of a text that mention both relations.
CheckedBlocks(text) ==
    SelectSeq(OptionalFindAll(text, 1),
              LAMBDA block : {"ontolex:lexicalForm", "ontolex:representation"}
                                 \subseteq Range(block))

\* The label of a block with what the per-block functions return for it.
ItemOf(block) ==
    [k |-> FormChecks(block, lexeme_form_metadata).form_rep_label,
     v |-> FormChecks(block, lexeme_form_metadata)]

\* C28: every form block of a scanned file that mentions both relations is
\* checked and reported: when a block is badly formatted, mislabeled or uses
\* an unknown code, the report of the file has the line of that block, also
\* when another block of the file has the same representation label.
C28_EveryBlockIsReported ==
    \A i \in 1..scanned :
        query_files[i].reads = ReadsOfARun
        => \A n \in 1..Len(CheckedBlocks(query_files[i].text)) :
               LET item == ItemOf(CheckedBlocks(query_files[i].text)[n])
               IN  FirstProblem(item) # <<>>
                   => \E m \in 1..Len(LabelLines(i)) :
                          LabelLines(i)[m] = KeyStr(item.k) \o <<" : ">> \o FirstProblem(item)

-----------------------------------------------------------------------------
(* translate_to_other_languages and translation_interrupt_handler            *)
(* (src/src/scribe_data/extract_transform/translation/translation_utils.py). *)
(* A dict is the sequence of its items [k, v] in insertion order.  The text  *)
(* json.dump writes is a sequence of chunks, one for each key of             *)
(* translations and one for each translation of the key.                     *)

\* get_target_langcodes(source_language)
TargetLangcodes == <<"de", "fr">>

Keys(dict) == {dict[n].k : n \in 1..Len(dict)}

\* dict[k]
DictGet(dict, k) == dict[CHOOSE n \in 1..Len(dict) : dict[n].k = k].v

\* if word not in translations: translations[word] = {}
\* translations[word][lang_code] = translation
AssignTranslation(dict, word, lang_code, translation) ==
    LET with_word == IF word \in Keys(dict) THEN dict ELSE DictSet(dict, word, <<>>)
    IN  DictSet(with_word, word, DictSet(DictGet(with_word, word), lang_code, translation))

\* The chunks json.dump(translations, file) writes.
Dump(dict) ==
    Flatten([n \in 1..Len(dict) |->
                <<[word |-> dict[n].k, lang |-> "", translation |-> ""]>>
                    \o [m \in 1..Len(dict[n].v) |->
                           [word |-> dict[n].k, lang |-> dict[n].v[m].k,
                            translation |-> dict[n].v[m].v]]])

\* What a write of the chunks at the offset leaves in the file: the file
\* descriptor keeps its own offset, and a gap is filled with null bytes.
WriteAt(content, offset, chunks) ==
    [n \in 1..Max({Len(content), offset + Len(chunks)}) |->
        IF n > offset /\ n <= offset + Len(chunks) THEN chunks[n - offset]
        ELSE IF n <= Len(content) THEN content[n]
        ELSE [word |-> "\\0", lang |-> "", translation |-> ""]]

\* batch_words = word_list[i : i + batch_size]
batch_words ==
    SubSeq(word_list, batch_index + 1, Min({batch_index + batch_size, Len(word_list)}))

\* for i in range(0, len(word_list), batch_size): the next batch begins, or
\* the loop ends and the function returns.
StartBatch ==
    /\ pc = "batch"
    /\ IF batch_index < Len(word_list)
       THEN pc' = "translate" /\ assigned' = 0
       ELSE pc' = "done" /\ assigned' = assigned
    /\ UNCHANGED <<checkVars, cliVars, word_list, batch_size, translations,
                   translated_words_json, batch_index, writer, loaded>>

\* One assignment of the loops of lines 87-101: the languages in order, and
\* for each language the words of the batch in order. The translation of a
\* word is what the translation model generates for it.
Translate ==
    /\ pc = "translate"
    /\ assigned < Len(TargetLangcodes) * Len(batch_words)
    /\ translations' =
           AssignTranslation(translations,
                             batch_words[(assigned % Len(batch_words)) + 1],
                             TargetLangcodes[(assigned \div Len(batch_words)) + 1],
                             "generated")
    /\ assigned' = assigned + 1
    /\ UNCHANGED <<checkVars, cliVars, pc, word_list, batch_size,
                   translated_words_json, batch_index, writer, loaded>>

\* with open(..., "w") as file: the file is truncated, and json.dump is
\* about to write the chunks of translations.
OpenFile ==
    /\ pc = "translate"
    /\ assigned = Len(TargetLangcodes) * Len(batch_words)
    /\ translated_words_json' = <<>>
    /\ writer' = Some([offset |-> 0, buffer |-> <<>>, todo |-> Dump(translations)])
    /\ pc' = "dump"
    /\ UNCHANGED <<checkVars, cliVars, word_list, batch_size, translations,
                   batch_index, assigned, loaded>>

\* json.dump writes its next chunk into the buffer of the file object.
WriteChunk ==
    /\ pc = "dump"
    /\ writer.v.todo # <<>>
    /\ writer' = Some([offset |-> writer.v.offset,
                       buffer |-> Append(writer.v.buffer, Head(writer.v.todo)),
                       todo |-> Tail(writer.v.todo)])
    /\ UNCHANGED <<checkVars, cliVars, pc, word_list, batch_size, translations,
                   translated_words_json, batch_index, assigned, loaded>>

\* The file object writes its buffer to the file when it is full.
FlushBuffer ==
    /\ pc = "dump"
    /\ writer.v.buffer # <<>>
    /\ translated_words_json' =
           WriteAt(translated_words_json, writer.v.offset, writer.v.buffer)
    /\ writer' = Some([offset |-> writer.v.offset + Len(writer.v.buffer),
                       buffer |-> <<>>,
                       todo |-> writer.v.todo])
    /\ UNCHANGED <<checkVars, cliVars, pc, word_list, batch_size, translations,
                   batch_index, assigned, loaded>>

\* The with block ends: the file object is closed, which writes what its
\* buffer holds, and the loop goes to the next batch.
CloseFile ==
    /\ pc = "dump"
    /\ writer.v.todo = <<>>
    /\ translated_words_json' =
           WriteAt(translated_words_json, writer.v.offset, writer.v.buffer)
    /\ writer' = None
    /\ batch_index' = batch_index + batch_size
    /\ pc' = "batch"
    /\ UNCHANGED <<checkVars, cliVars, word_list, batch_size, translations,
                   assigned, loaded>>

\* Mutant: the handler ends the process without writing the file.
Interrupt_without_save ==
    /\ pc \in {"batch", "translate", "dump"}
    /\ translated_words_json' =
           IF writer.isNone THEN translated_words_json
           ELSE WriteAt(translated_words_json, writer.v.offset, writer.v.buffer)
    /\ writer' = None
    /\ pc' = "exited"
    /\ UNCHANGED <<checkVars, cliVars, word_list, batch_size, translations,
                   batch_index, assigned, loaded>>

\* SIGINT after signal.signal has registered the handler: the handler runs
\* between two steps of the function, rewrites the file with the translations
\* in memory and calls exit(). SystemExit then leaves the with block, if the
\* function is in it, which closes its file object: what its buffer holds is
\* written at its own offset.
Interrupt ==
    /\ pc \in {"batch", "translate", "dump"}
    /\ translated_words_json' =
           IF writer.isNone THEN Dump(translations)
           ELSE WriteAt(Dump(translations), writer.v.offset, writer.v.buffer)
    /\ writer' = None
    /\ pc' = "exited"
    /\ UNCHANGED <<checkVars, cliVars, word_list, batch_size, translations,
                   batch_index, assigned, loaded>>

-----------------------------------------------------------------------------
(* Specification of one call of translate_to_other_languages *)

\* Most words of word_list.
MaxWords == 3

\* Largest batch_size.
MaxBatchSize == 2

Words == {"cat", "dog", "owl"}

\* The translations loaded before the call: none, a word without
\* translations, a word with one of an earlier run.
LoadedTranslations ==
    {<<>>,
     <<[k |-> "owl", v |-> <<>>]>>,
     <<[k |-> "cat", v |-> <<[k |-> "fr", v |-> "loaded"]>>]>>}

InitTranslation ==
    /\ lexeme_form_metadata = VocabularyCaseNumber
    /\ qids = None
    /\ correct_label = <<>>
    /\ query_text = <<>>
    /\ docstring_result = NotCalled
    /\ forms_result = <<"not called">>
    /\ forms_locals = NoLocals
    /\ form_text = <<>>
    /\ form_checks = NoChecks
    /\ NoRun
    /\ NoCli
    /\ word_list \in SeqsUpTo(Words, MaxWords)
    /\ batch_size \in 1..MaxBatchSize
    /\ translations \in LoadedTranslations
    /\ translated_words_json \in {<<>>, Dump(translations)}
    /\ batch_index = 0
    /\ assigned = 0
    /\ writer = None
    /\ loaded = Keys(translations)
    /\ pc = "batch"

NextTranslation ==
    \/ StartBatch
    \/ Translate
    \/ OpenFile
    \/ WriteChunk
    \/ FlushBuffer
    \/ CloseFile
    \/ Interrupt

SpecTranslation == InitTranslation /\ [][NextTranslation]_vars

-----------------------------------------------------------------------------
(* Claims about translate_to_other_languages *)

\* The file holds the translation of the word to the language.
FileHolds(word, lang_code) ==
    \E n \in 1..Len(translated_words_json) :
        /\ translated_words_json[n].word = word
        /\ translated_words_json[n].lang = lang_code

\* The file holds an entry for the word.
FileHoldsWord(word) ==
    \E n \in 1..Len(translated_words_json) : translated_words_json[n].word = word

\* The words of the batches that are completed.
CompletedWords == {word_list[n] : n \in 1..Min({batch_index, Len(word_list)})}

\* The file holds every word of the completed batches for every target
\* language, and every word that was loaded.
ProgressIsSaved ==
    /\ \A word \in CompletedWords :
           \A n \in 1..Len(TargetLangcodes) : FileHolds(word, TargetLangcodes[n])
    /\ \A word \in loaded : FileHoldsWord(word)

\* C30: after every completed batch the file is the dump of the translations
\* in memory and holds every word of the batches so far for every target
\* language and every loaded word; and after a SIGINT the file is the dump of
\* the translations in memory at that moment, which hold all of that too.
C30_ProgressIsNeverLost ==
    /\ (pc \in {"batch", "done"} /\ batch_index > 0)
       => /\ translated_words_json = Dump(translations)
          /\ ProgressIsSaved
    /\ pc = "exited"
       => /\ translated_words_json = Dump(translations)
          /\ ProgressIsSaved

\* A SIGINT while the second batch is being translated: the file holds the
\* first batch, the loaded word and what was translated of the second.
C30_Witness ==
    /\ pc = "exited"
    /\ word_list = <<"dog", "owl">>
    /\ batch_size = 1
    /\ batch_index = 1
    /\ loaded = {"cat"}
    /\ translations =
           <<[k |-> "cat", v |-> <<[k |-> "fr", v |-> "loaded"]>>],
             [k |-> "dog", v |-> <<[k |-> "de", v |-> "generated"],
                                   [k |-> "fr", v |-> "generated"]>>],
             [k |-> "owl", v |-> <<[k |-> "de", v |-> "generated"]>>]>>
    /\ Len(translated_words_json) = 7
    /\ translated_words_json = Dump(translations)

=============================================================================
